---- MODULE Spec2Model ----
(***************************************************************************)
(* State-machine model of the SQS transporter: the server's consumer loop  *)
(* (listen, handleMessage, handleEvent, close), the envelope decoder and   *)
(* the offload-pointer reader it calls.                                    *)
(*                                                                         *)
(* Scheduling follows the JavaScript event loop: every action is one       *)
(* synchronous run of code from one suspension point (await, timer, I/O    *)
(* completion) to the next.                                                *)
(***************************************************************************)
EXTENDS Integers, Sequences, FiniteSets, TLC

(***************************************************************************)
(* Bounds of the model.                                                    *)
(***************************************************************************)
NumMsgs == 2          \* messages that producers put on the queue
MaxDeliveries == 2    \* times the queue hands out one message
MaxListens == 2       \* listen() calls
MaxCloses == 2        \* close() calls
MaxBatch == 2         \* messages returned by one poll (consumerOptions.batchSize)
TickMs == 100         \* granularity of the clock, in milliseconds

(***************************************************************************)
(* Program constants.                                                      *)
(***************************************************************************)
DefaultShutdownTimeoutMs == 30000
ClosePollIntervalMs == 100
S3_POINTER_CLASS == "software.amazon.payloadoffloading.PayloadS3Pointer"
S3_POINTER_KEY == "__s3pointer"
MESSAGE_PATTERN_HEADER == "messagePattern"
CORRELATION_ID_HEADER == "correlationId"
NO_EVENT_HANDLER == "There is no matching event handler defined in the remote service."
DefaultPatternKey == "pattern"
UnknownPattern == "unknown"

Msgs == 1 .. NumMsgs
Null == 0

(***************************************************************************)
(* JSON values, as JSON.parse produces them.  Undef is JavaScript's        *)
(* undefined (a missing property).                                         *)
(***************************************************************************)
Undef == [t |-> "undefined"]
JNull == [t |-> "null"]
JStr(s) == [t |-> "str", s |-> s]
JObj(f) == [t |-> "obj", f |-> f]
JArr(e) == [t |-> "arr", e |-> e]
JNum(n) == [t |-> "num", n |-> n]
JBool(b) == [t |-> "bool", b |-> b]

\* JSON.stringify(value): a property whose value is undefined is left out,
\* an undefined array element is written as null.
RECURSIVE Jsonify(_)
Jsonify(v) ==
    IF v.t = "obj"
    THEN JObj([k \in {j \in DOMAIN v.f : v.f[j] # Undef} |-> Jsonify(v.f[k])])
    ELSE IF v.t = "arr"
    THEN JArr([i \in 1 .. Len(v.e) |->
                  IF v.e[i] = Undef THEN JNull ELSE Jsonify(v.e[i])])
    ELSE v

\* A message body is a string: empty, text that is not JSON, or the JSON
\* text of a value.
EmptyBody == [k |-> "empty"]
TextBody(s) == [k |-> "text", s |-> s]
JsonBody(v) == [k |-> "json", v |-> v]

\* JSON.parse(body): the parsed value, or a SyntaxError.
JsonParse(body) ==
    IF body.k = "json" THEN [ok |-> TRUE, v |-> body.v]
    ELSE [ok |-> FALSE, v |-> Undef]

\* value[key] in JavaScript: a property read throws on null and undefined,
\* yields undefined on a missing property.
\* (key is a property name; an array or a string has none of the names used
\* here.)
PropThrows(v) == v.t \in {"null", "undefined"}
Prop(v, key) ==
    IF v.t = "obj" /\ key \in DOMAIN v.f THEN v.f[key] ELSE Undef

\* message.MessageAttributes?.[name]?.StringValue
AttrValue(message, name) ==
    IF name \in DOMAIN message.MessageAttributes
    THEN message.MessageAttributes[name] ELSE ""

(***************************************************************************)
(* SqsDeserializer.deserialize                                             *)
(***************************************************************************)
HeaderPattern(message) ==
    IF AttrValue(message, MESSAGE_PATTERN_HEADER) # ""
    THEN JStr(AttrValue(message, MESSAGE_PATTERN_HEADER))
    ELSE JStr(UnknownPattern)

Decoded(pattern, data, id) ==
    [ok |-> TRUE, err |-> "", pattern |-> pattern, data |-> data, id |-> id]
DecodeError(e) ==
    [ok |-> FALSE, err |-> e, pattern |-> Undef, data |-> Undef, id |-> Undef]

\* (a variant that answers an empty body with a fallback envelope)
EmptyBodyFallback ==
    [ok |-> TRUE, err |-> "", pattern |-> JStr(UnknownPattern), data |-> JStr(""),
     id |-> Undef]

\* if (!body) throw new Error("Message body is empty")
EmptyBodyError == DecodeError("Message body is empty")

deserialize(message, patternKey) ==
    LET body == message.Body
        p == JsonParse(body)
    IN  IF body.k = "empty" THEN EmptyBodyError
        ELSE IF ~p.ok THEN Decoded(HeaderPattern(message), JStr(body.s), Undef)
        ELSE IF PropThrows(p.v) THEN DecodeError("TypeError")
        ELSE LET patternValue == Prop(p.v, patternKey)
                 parsedData == Prop(p.v, "data")
                 correlationId ==
                     IF AttrValue(message, CORRELATION_ID_HEADER) # ""
                     THEN JStr(AttrValue(message, CORRELATION_ID_HEADER))
                     ELSE Prop(p.v, "id")
                 data ==
                     IF patternKey = DefaultPatternKey
                     THEN (IF parsedData.t \in {"undefined", "null"}
                           THEN p.v ELSE parsedData)
                     ELSE p.v
             IN  IF patternValue # Undef
                 THEN Decoded(patternValue, data, correlationId)
                 ELSE Decoded(HeaderPattern(message), p.v, Undef)

(***************************************************************************)
(* SqsSerializer.serialize: JSON.stringify({[patternKey]: pattern, data,   *)
(* id}); in the object literal a later key replaces an earlier equal one.  *)
(***************************************************************************)
\* (a variant that writes the data without the envelope around it)
serializeDataOnly(packet, patternKey) ==
    [k |-> "json", v |-> IF packet.data = Undef THEN JNull ELSE Jsonify(packet.data)]

serialize(packet, patternKey) ==
    [k |-> "json",
     v |-> Jsonify(JObj(("id" :> packet.id) @@ ("data" :> packet.data)
                        @@ (patternKey :> JStr(packet.pattern))))]

(***************************************************************************)
(* S3LargeMessageHandler: reading offload pointers                         *)
(***************************************************************************)
NoPointer == [found |-> FALSE, threw |-> FALSE, bucket |-> Undef, key |-> Undef]
Pointer(bucket, key) ==
    [found |-> TRUE, threw |-> FALSE, bucket |-> bucket, key |-> key]
PointerThrew == [found |-> FALSE, threw |-> TRUE, bucket |-> Undef, key |-> Undef]

\* Returns the pointer whenever the class tag matches: the bucket and key
\* are taken as they are.  Reading item['@class'] of a null or undefined
\* array element throws.
parseAwsExtendedFormat(parsed) ==
    IF parsed.t = "arr" /\ Len(parsed.e) = 1 /\ PropThrows(parsed.e[1])
    THEN PointerThrew
    ELSE IF /\ parsed.t = "arr" /\ Len(parsed.e) = 1
            /\ Prop(parsed.e[1], "@class") = JStr(S3_POINTER_CLASS)
    THEN Pointer(Prop(parsed.e[1], "s3BucketName"), Prop(parsed.e[1], "s3Key"))
    ELSE IF /\ parsed.t \in {"obj", "arr"}
            /\ Prop(parsed, "@class") = JStr(S3_POINTER_CLASS)
    THEN Pointer(Prop(parsed, "s3BucketName"), Prop(parsed, "s3Key"))
    ELSE NoPointer

parseSimpleFormat(parsed, pointerKey) ==
    IF parsed.t \notin {"obj", "arr"} THEN NoPointer
    ELSE LET s3Pointer == Prop(parsed, pointerKey)
         IN  IF s3Pointer.t \notin {"obj", "arr"} THEN NoPointer
             ELSE IF /\ Prop(s3Pointer, "bucket").t = "str"
                     /\ Prop(s3Pointer, "key").t = "str"
             THEN Pointer(Prop(s3Pointer, "bucket"), Prop(s3Pointer, "key"))
             ELSE NoPointer

\* parseS3Pointer: every exception, of JSON.parse or of the format
\* parsers, is caught and gives null.
parseS3Pointer(body, pointerFormat, pointerKey) ==
    LET p == JsonParse(body)
        aws == parseAwsExtendedFormat(p.v)
        simple == parseSimpleFormat(p.v, pointerKey)
    IN  IF ~p.ok THEN NoPointer
        ELSE IF pointerFormat \in {"aws-extended", "auto"} /\ aws.threw
        THEN NoPointer
        ELSE IF pointerFormat \in {"aws-extended", "auto"} /\ aws.found
        THEN aws
        ELSE IF pointerFormat \in {"simple", "auto"} /\ simple.found
        THEN simple
        ELSE NoPointer

isS3Pointer(body, pointerFormat, pointerKey) ==
    parseS3Pointer(body, pointerFormat, pointerKey).found


(***************************************************************************)
(* Environment: wire messages, the object store, the handler registry      *)
(***************************************************************************)
NoAttributes == [n \in {} |-> ""]
PatternAttribute(p) == [n \in {MESSAGE_PATTERN_HEADER} |-> p]

Envelope(p, d) == JsonBody(JObj([pattern |-> JStr(p), data |-> JStr(d)]))
SimplePointerBody(bucket, key) ==
    JsonBody(JObj([n \in {S3_POINTER_KEY} |->
                      JObj([bucket |-> JStr(bucket), key |-> JStr(key)])]))

\* What producers put on the queue: a body and its message attributes.
Wire ==
    { [Body |-> Envelope("evt", "d1"), MessageAttributes |-> PatternAttribute("evt")],
      [Body |-> Envelope("req", "d2"), MessageAttributes |-> PatternAttribute("req")],
      [Body |-> Envelope("nohandler", "d3"), MessageAttributes |-> NoAttributes],
      [Body |-> Envelope("poison", "d4"), MessageAttributes |-> NoAttributes],
      [Body |-> TextBody("plain text message"), MessageAttributes |-> NoAttributes],
      [Body |-> EmptyBody, MessageAttributes |-> NoAttributes],
      [Body |-> SimplePointerBody("bkt", "k1"), MessageAttributes |-> PatternAttribute("evt")],
      [Body |-> SimplePointerBody("bkt", "k0"), MessageAttributes |-> NoAttributes] }

\* An ordinary job message.
JobWire ==
    { [Body |-> Envelope("job", "d0"), MessageAttributes |-> PatternAttribute("job")] }

\* The object store: k1 holds an offloaded envelope, k0 an empty object.
\* A GetObject either fails with the store's error or returns the object.
StoreObject(key) ==
    IF key = JStr("k1") THEN Envelope("evt", "big") ELSE EmptyBody

S3GetOutcomes(pointer) ==
    { [ok |-> FALSE, body |-> EmptyBody],
      [ok |-> TRUE, body |-> StoreObject(pointer.key)] }

\* The handler registry (Server.getHandlerByPattern of the framework): two
\* event handlers, a request-style handler, a pattern whose lookup throws,
\* and no handler for anything else.
getHandlerByPattern(pattern) ==
    IF pattern \in {JStr("evt"), JStr("job")} THEN "event"
    ELSE IF pattern = JStr("req") THEN "request"
    ELSE IF pattern = JStr("poison") THEN "throws"
    ELSE "none"

\* What a handler does when invoked: it returns a plain value or a promise
\* of one ("value"), throws or returns a rejected promise ("error"), or
\* returns a finite stream that emits syncVals values as soon as it is
\* subscribed, laterVals values afterwards, and completes either at once
\* (syncComplete) or later.
HandlerResult(k, s, l, c) ==
    [k |-> k, syncVals |-> s, laterVals |-> l, syncComplete |-> c]
HandlerResults ==
    { HandlerResult("value", 0, 0, FALSE), HandlerResult("error", 0, 0, FALSE) }
    \cup { HandlerResult("stream", s, 0, TRUE) : s \in 0 .. 1 }
    \cup { HandlerResult("stream", s, l, FALSE) : s \in 0 .. 1, l \in 0 .. 1 }
NoResult == HandlerResult("", 0, 0, FALSE)

\* The job handler returns a promise that is fulfilled if it is ever
\* settled; the other handlers may return anything.
HandlerResultsOf(pattern) ==
    IF pattern = JStr("job")
    THEN {r \in HandlerResults : r.k = "value"}
    ELSE HandlerResults

(***************************************************************************)
(* State                                                                   *)
(***************************************************************************)
Consumers == 1 .. MaxListens
Closes == 1 .. MaxCloses
Undefined == -1
ShutdownTimeoutOptions == {0, 150}

VARIABLES
    opts,            \* SqsServerOptions given to the constructor
    consumer,        \* ServerSqs.consumer: Null or the consumer it refers to
    consumers,       \* per consumer created by listen(): its state and stop() calls
    callbacks,       \* listen() callbacks invoked
    activeMessages,  \* ServerSqs.activeMessages
    queue,           \* per message: what the queue holds and its delivery state
    runq,            \* messages of a received batch whose handleMessage is still to be called
    inv,             \* per message: the handleMessage invocation of its last delivery
    close,           \* per close() call: its position and what it observed
    closeSnap,       \* per close() call: the messages that were in flight when it
                     \* was called and have not completed while it waits
    call             \* a call of the library from outside the consumer loop (the
                     \* constructor, the serializers, the pointer functions):
                     \* its arguments, its position and its result

vars == <<opts, consumer, consumers, callbacks, activeMessages, queue, runq, inv,
          close, closeSnap, call>>

\* No such call is under way.
NoCall == [fn |-> "none"]

NoWire == [Body |-> EmptyBody, MessageAttributes |-> NoAttributes]

\* A consumer that listen() has not created yet.  handlers: the events a
\* handler is registered for; ready: the state the consumer was in when the
\* callback of listen() ran.
NoConsumer == [state |-> "none", stops |-> 0, handlers |-> {}, ready |-> ""]

IdleInvocation ==
    [pc |-> "idle", body |-> EmptyBody, pattern |-> Undef, data |-> Undef,
     handler |-> "", calls |-> 0, args |-> Undef, result |-> NoResult,
     seen |-> 0, outcome |-> "", err |-> "", logged |-> "", metric |-> "",
     warned |-> Undef, sent |-> 0, store |-> <<>>]

IdleClose ==
    [pc |-> "idle", elapsed |-> 0, sleep |-> 0, warn |-> Undefined, err |-> FALSE]

\* options.shutdownTimeoutMs ?? 30000
ShutdownTimeout ==
    IF opts.shutdownTimeoutMs = Undefined THEN DefaultShutdownTimeoutMs
    ELSE opts.shutdownTimeoutMs

\* The fields of a ServerSqs object that was just constructed, and an empty
\* queue.
FreshServer ==
    /\ consumer = Null
    /\ consumers = [c \in Consumers |-> NoConsumer]
    /\ callbacks = 0
    /\ activeMessages = 0
    /\ queue = [m \in Msgs |-> [state |-> "absent", wire |-> NoWire,
                                receives |-> 0, owner |-> Null]]
    /\ runq = <<>>
    /\ inv = [m \in Msgs |-> IdleInvocation]
    /\ close = [k \in Closes |-> IdleClose]
    /\ closeSnap = [k \in Closes |-> {}]

Init ==
    /\ opts \in [shutdownTimeoutMs : ShutdownTimeoutOptions,
                 s3Enabled : BOOLEAN,
                 shouldDeleteMessages : BOOLEAN]
    /\ FreshServer
    /\ call = NoCall

\* Between two tasks of the event loop: no synchronous run over a received
\* batch is under way, and no caller of close() is about to resume (the
\* continuation of an awaited promise runs before any timer or I/O event).
TaskBoundary ==
    /\ runq = <<>>
    /\ \A k \in Closes : close[k].pc # "returned"

Listens == Cardinality({c \in Consumers : consumers[c].state # "none"})
Polling == {c \in Consumers : consumers[c].state = "polling"}
InFlight == {m \in Msgs : inv[m].pc \notin {"idle", "done"}}

(***************************************************************************)
(* A producer puts a message on the queue.                                 *)
(***************************************************************************)
Produce(m, w) ==
    /\ TaskBoundary
    /\ queue[m].state = "absent"
    /\ \A n \in Msgs : n < m => queue[n].state # "absent"
    /\ queue' = [queue EXCEPT ![m].state = "visible", ![m].wire = w]
    /\ UNCHANGED <<call, opts, consumer, consumers, callbacks, activeMessages, runq, inv,
                   close, closeSnap>>

(***************************************************************************)
(* ServerSqs.listen                                                        *)
(***************************************************************************)
\* (a variant that reports readiness before it starts the consumer)
ListenBodyCallbackFirst ==
    <<"create", "on:error", "on:processing_error", "on:started", "on:stopped",
      "callback", "start">>

\* The statements of listen(), in program order.
ListenBody ==
    <<"create", "on:error", "on:processing_error", "on:started", "on:stopped",
      "start", "callback">>

\* One statement of listen() on the consumer being set up (k.c) and the
\* number of callback invocations (k.callbacks).
ListenStep(stmt, k) ==
    IF stmt = "create" THEN [k EXCEPT !.c.state = "created"]
    ELSE IF stmt = "start" THEN [k EXCEPT !.c.state = "polling"]
    ELSE IF stmt = "callback"
    THEN [k EXCEPT !.callbacks = @ + 1, !.c.ready = k.c.state]
    ELSE [k EXCEPT !.c.handlers = @ \cup {SubSeq(stmt, 4, Len(stmt))}]

RECURSIVE RunListen(_, _)
RunListen(body, k) ==
    IF body = <<>> THEN k ELSE RunListen(Tail(body), ListenStep(Head(body), k))

Listen ==
    /\ TaskBoundary
    /\ Listens < MaxListens
    /\ LET c == Listens + 1
           k == RunListen(ListenBody, [c |-> consumers[c], callbacks |-> callbacks])
       IN  /\ consumer' = c
           /\ consumers' = [consumers EXCEPT ![c] = k.c]
           /\ callbacks' = k.callbacks
    /\ UNCHANGED <<call, opts, activeMessages, queue, runq, inv, close, closeSnap>>


(***************************************************************************)
(* The consumer library polls: a consumer that was not stopped and whose   *)
(* previous batch is finished receives a batch of visible messages and     *)
(* calls handleMessage for each of them in the same synchronous run.       *)
(***************************************************************************)
RECURSIVE SeqOf(_)
SeqOf(S) ==
    IF S = {} THEN <<>>
    ELSE LET m == CHOOSE x \in S : \A y \in S : x <= y
         IN  <<m>> \o SeqOf(S \ {m})

Receivable == {m \in Msgs : queue[m].state = "visible" /\ queue[m].receives < MaxDeliveries}

Poll(c, batch) ==
    /\ TaskBoundary
    /\ consumers[c].state = "polling"
    /\ \A m \in Msgs : queue[m].owner = c => queue[m].state # "inflight"
    /\ batch # {} /\ batch \subseteq Receivable /\ Cardinality(batch) <= MaxBatch
    /\ queue' = [m \in Msgs |->
                    IF m \in batch
                    THEN [queue[m] EXCEPT !.state = "inflight", !.owner = c,
                                          !.receives = @ + 1]
                    ELSE queue[m]]
    /\ runq' = SeqOf(batch)
    /\ UNCHANGED <<call, opts, consumer, consumers, callbacks, activeMessages, inv, close,
                   closeSnap>>

(***************************************************************************)
(* ServerSqs.handleMessage                                                 *)
(***************************************************************************)
\* (a variant that answers a request over the queue)
SucceededWithReply(r) ==
    [r EXCEPT !.pc = "done", !.outcome = "resolved", !.metric = "success",
              !.sent = IF r.handler = "request" THEN 1 ELSE 0]

\* try-block reached its end: success metrics, the promise resolves.
Succeeded(r) ==
    [r EXCEPT !.pc = "done", !.outcome = "resolved", !.metric = "success"]

\* (a variant that swallows the error instead of re-throwing it)
FailedSwallowed(r, e) ==
    [r EXCEPT !.pc = "done", !.outcome = "resolved", !.err = e,
              !.logged = e, !.metric = "error"]

\* catch-block: log the error, record the error metrics, re-throw it.
Failed(r, e) ==
    [r EXCEPT !.pc = "done", !.outcome = "rejected", !.err = e,
              !.logged = e, !.metric = "error"]

\* (a variant that treats a missing handler as a failure)
NoHandlerThrows(r) ==
    Failed([r EXCEPT !.handler = "none"], NO_EVENT_HANDLER)

\* if (!handler) { logger.warn(NO_EVENT_HANDLER + pattern); return; }
NoHandlerFound(r) ==
    [r EXCEPT !.pc = "done", !.outcome = "resolved", !.handler = "none",
              !.warned = [text |-> NO_EVENT_HANDLER, pattern |-> r.pattern]]

\* (a variant that decrements at the end of the try-block only)
DecrementOnSuccessOnly(r) == IF r.outcome = "resolved" THEN 1 ELSE 0

\* finally { this.activeMessages--; }
FinallyDecrement(r) == 1

Complete(m, r, active) ==
    /\ inv' = [inv EXCEPT ![m] = r]
    /\ activeMessages' = active - FinallyDecrement(r)
    /\ closeSnap' = [k \in Closes |->
                        IF close[k].pc = "waiting" THEN closeSnap[k] \ {m}
                        ELSE closeSnap[k]]

\* The message object the consumer hands to handleMessage: what the queue
\* assigned to it and what the producer sent.
ReceivedMessage(m) ==
    [MessageId |-> m, ReceiptHandle |-> [handle |-> m],
     Body |-> queue[m].wire.Body,
     Attributes |-> [SenderId |-> "producer"],
     MessageAttributes |-> queue[m].wire.MessageAttributes]

\* (a variant that passes the message on as it was received)
messageAsReceived(message, body) == message

\* { ...message, Body: body }
unwrappedMessage(message, body) == [message EXCEPT !.Body = body]

\* (a variant that keeps the message in one place for all invocations)
SqsContextShared(m, body, pattern) ==
    [message |-> unwrappedMessage(ReceivedMessage(1), body), pattern |-> pattern]

\* new SqsContext([unwrappedMessage, pattern]) and handler(data, context)
SqsContext(m, body, pattern) ==
    [message |-> unwrappedMessage(ReceivedMessage(m), body), pattern |-> pattern]

Invoked(r, handler, result, m) ==
    [r EXCEPT !.pc = "awaitHandler", !.handler = handler, !.calls = @ + 1,
              !.args = [data |-> r.data, context |-> SqsContext(m, r.body, r.pattern)],
              !.result = result]

\* From the unwrapped body to the first await of the dispatch: decode,
\* build the context, look the handler up, invoke it.
Dispatch(m, body, active) ==
    LET message == unwrappedMessage(ReceivedMessage(m), body)
        d == deserialize(message, DefaultPatternKey)
        base == [IdleInvocation EXCEPT !.body = body, !.pattern = d.pattern,
                                       !.data = d.data,
                                       !.store = IF inv[m].pc = "awaitUnwrap"
                                                 THEN inv[m].store ELSE <<>>]
        handler == getHandlerByPattern(d.pattern)
    IN  IF ~d.ok THEN Complete(m, Failed(base, d.err), active)
        ELSE IF handler = "throws" THEN Complete(m, Failed(base, "LookupError"), active)
        ELSE IF handler = "none" THEN Complete(m, NoHandlerFound(base), active)
        ELSE \E result \in HandlerResultsOf(d.pattern) :
                /\ inv' = [inv EXCEPT ![m] = Invoked(base, handler, result, m)]
                /\ activeMessages' = active
                /\ UNCHANGED closeSnap

\* (a variant that removes the object once it was asked for)
ReadThenDelete(body) ==
    LET pointer == parseS3Pointer(body, "auto", S3_POINTER_KEY)
    IN  IF ~pointer.found THEN <<>>
        ELSE <<[cmd |-> "GetObject", Bucket |-> pointer.bucket, Key |-> pointer.key],
               [cmd |-> "DeleteObject", Bucket |-> pointer.bucket, Key |-> pointer.key]>>

\* The commands unwrapIfPointer sends to the store for a body: one
\* GetObject for a pointer, nothing otherwise.
UnwrapCommands(body) ==
    LET pointer == parseS3Pointer(body, "auto", S3_POINTER_KEY)
    IN  IF ~pointer.found THEN <<>>
        ELSE <<[cmd |-> "GetObject", Bucket |-> pointer.bucket, Key |-> pointer.key]>>

\* The synchronous start of handleMessage: count the message, then run up
\* to the first await (the unwrap when offload is enabled, the handler
\* otherwise).
HandleMessage(m) ==
    /\ runq # <<>> /\ m = Head(runq)
    /\ runq' = Tail(runq)
    /\ IF opts.s3Enabled
       THEN /\ inv' = [inv EXCEPT ![m] = [IdleInvocation EXCEPT
                                            !.pc = "awaitUnwrap",
                                            !.body = queue[m].wire.Body,
                                            !.store =
                                               UnwrapCommands(queue[m].wire.Body)]]
            /\ activeMessages' = activeMessages + 1
            /\ UNCHANGED closeSnap
       ELSE Dispatch(m, queue[m].wire.Body, activeMessages + 1)
    /\ UNCHANGED <<call, opts, consumer, consumers, callbacks, queue, close>>

\* S3LargeMessageHandler.unwrapIfPointer settles and handleMessage goes on.
UnwrapSettle(m) ==
    /\ TaskBoundary
    /\ inv[m].pc = "awaitUnwrap"
    /\ LET pointer == parseS3Pointer(inv[m].body, "auto", S3_POINTER_KEY)
       IN  IF ~pointer.found
           THEN Dispatch(m, inv[m].body, activeMessages)
           ELSE \E o \in S3GetOutcomes(pointer) :
                   IF ~o.ok
                   THEN Complete(m, Failed(inv[m], "StoreError"), activeMessages)
                   ELSE IF o.body.k = "empty"
                   THEN Complete(m, Failed(inv[m], "Failed to read S3 object"),
                                 activeMessages)
                   ELSE Dispatch(m, o.body, activeMessages)
    /\ UNCHANGED <<call, opts, consumer, consumers, callbacks, queue, runq, close>>

\* Values the awaiting lastValueFrom has seen once it is subscribed.
\* handleEvent connects the stream to a fresh Subject first and subscribes
\* lastValueFrom to that Subject afterwards, so what the stream emits while
\* being connected is not seen; the request branch subscribes lastValueFrom
\* to the stream itself.
SeenAtSubscribe(handler, result) ==
    IF handler = "event" THEN 0 ELSE result.syncVals

\* lastValueFrom on completion: the last value, or EmptyError without one.
LastValueFrom(r, seen) ==
    IF seen > 0 THEN Succeeded(r) ELSE Failed(r, "EmptyError")

\* `await handler(data, context)` settles (in handleEvent for an event
\* handler, in handleMessage for a request-style handler).
HandlerSettle(m) ==
    /\ TaskBoundary
    /\ inv[m].pc = "awaitHandler"
    /\ LET r == inv[m]
           seen == SeenAtSubscribe(r.handler, r.result)
       IN  IF r.result.k = "error"
           THEN Complete(m, Failed(r, "HandlerError"), activeMessages)
           ELSE IF r.result.k = "value"
           THEN Complete(m, Succeeded(r), activeMessages)
           ELSE IF r.result.syncComplete
           THEN Complete(m, LastValueFrom(r, seen), activeMessages)
           ELSE /\ inv' = [inv EXCEPT ![m].pc = "awaitStream", ![m].seen = seen]
                /\ UNCHANGED <<activeMessages, closeSnap>>
    /\ UNCHANGED <<call, opts, consumer, consumers, callbacks, queue, runq, close>>

\* The stream emits its remaining values and completes.
StreamComplete(m) ==
    /\ TaskBoundary
    /\ inv[m].pc = "awaitStream"
    /\ Complete(m, LastValueFrom(inv[m], inv[m].seen + inv[m].result.laterVals),
                activeMessages)
    /\ UNCHANGED <<call, opts, consumer, consumers, callbacks, queue, runq, close>>

\* The consumer library after handleMessage settled: it deletes the message
\* when the promise resolved and shouldDeleteMessages is set, and leaves it
\* on the queue otherwise, where it becomes visible again.
ConsumerAck(m) ==
    /\ TaskBoundary
    /\ queue[m].state = "inflight"
    /\ inv[m].pc = "done"
    /\ queue' = [queue EXCEPT ![m].state =
                    IF inv[m].outcome = "resolved" /\ opts.shouldDeleteMessages
                    THEN "deleted" ELSE "visible",
                                ![m].owner = Null]
    /\ UNCHANGED <<call, opts, consumer, consumers, callbacks, activeMessages, runq, inv,
                   close, closeSnap>>

(***************************************************************************)
(* ServerSqs.close                                                         *)
(***************************************************************************)
\* (a variant of the loop without the timeout)
KeepWaitingNoTimeout(elapsed) == activeMessages > 0

\* while (this.activeMessages > 0 && Date.now() - start < timeout)
KeepWaiting(elapsed) == activeMessages > 0 /\ elapsed < ShutdownTimeout

\* if (this.consumer)
StopGuard == consumer # Null

\* (a variant that keeps the reference to the stopped consumer)
ConsumerKept == consumer

\* this.consumer = null
ConsumerAfterStop == Null

\* After the loop: the warning, the stop of the consumer, the return.
CloseFinish(k, r) ==
    LET warned == [r EXCEPT !.pc = "returned", !.elapsed = 0, !.sleep = 0,
                            !.warn = IF activeMessages > 0 THEN activeMessages
                                     ELSE Undefined]
    IN  IF ~StopGuard
        THEN /\ close' = [close EXCEPT ![k] = warned]
             /\ UNCHANGED <<consumer, consumers>>
        ELSE IF consumer = Null
        THEN /\ close' = [close EXCEPT ![k] = [warned EXCEPT !.err = TRUE]]
             /\ UNCHANGED <<consumer, consumers>>
        ELSE /\ close' = [close EXCEPT ![k] = warned]
             /\ consumers' = [consumers EXCEPT ![consumer].state = "stopped",
                                               ![consumer].stops = @ + 1]
             /\ consumer' = ConsumerAfterStop

CloseStart(k) ==
    /\ TaskBoundary
    /\ close[k].pc = "idle"
    /\ \A j \in Closes : j < k => close[j].pc # "idle"
    /\ closeSnap' = [closeSnap EXCEPT ![k] = InFlight]
    /\ IF KeepWaiting(0)
       THEN /\ close' = [close EXCEPT ![k].pc = "waiting",
                                      ![k].sleep = ClosePollIntervalMs]
            /\ UNCHANGED <<consumer, consumers>>
       ELSE CloseFinish(k, close[k])
    /\ UNCHANGED <<call, opts, callbacks, activeMessages, queue, runq, inv>>

\* The 100 ms timer of the loop fires.
CloseWake(k) ==
    /\ TaskBoundary
    /\ close[k].pc = "waiting"
    /\ close[k].sleep = 0
    /\ IF KeepWaiting(close[k].elapsed)
       THEN /\ close' = [close EXCEPT ![k].sleep = ClosePollIntervalMs]
            /\ UNCHANGED <<consumer, consumers>>
       ELSE CloseFinish(k, close[k])
    /\ UNCHANGED <<call, opts, callbacks, activeMessages, queue, runq, inv, closeSnap>>

\* The promise of close() is resolved and its caller resumes; what the call
\* logged and waited for is kept up to here.
CloseSettled(k) ==
    /\ runq = <<>>
    /\ close[k].pc = "returned"
    /\ close' = [close EXCEPT ![k].pc = "settled", ![k].warn = Undefined]
    /\ closeSnap' = [closeSnap EXCEPT ![k] = {}]
    /\ UNCHANGED <<call, opts, consumer, consumers, callbacks, activeMessages, queue, runq,
                   inv>>

\* Date.now() - start is compared with the timeout only: beyond the timeout
\* and one more sleep the exact value makes no difference.
ElapsedCap == ShutdownTimeout + ClosePollIntervalMs + TickMs

\* Time passes while some close() sleeps; a timer that is due fires before
\* the clock moves on.
Tick ==
    /\ TaskBoundary
    /\ \E k \in Closes : close[k].pc = "waiting"
    /\ \A k \in Closes : close[k].pc = "waiting" => close[k].sleep > 0
    /\ close' = [k \in Closes |->
                    IF close[k].pc = "waiting"
                    THEN [close[k] EXCEPT
                            !.elapsed = IF @ + TickMs > ElapsedCap THEN ElapsedCap
                                        ELSE @ + TickMs,
                            !.sleep = IF @ > TickMs THEN @ - TickMs ELSE 0]
                    ELSE close[k]]
    /\ UNCHANGED <<call, opts, consumer, consumers, callbacks, activeMessages, queue, runq,
                   inv, closeSnap>>

Next ==
    \/ \E m \in Msgs, w \in Wire \cup JobWire : Produce(m, w)
    \/ Listen
    \/ \E c \in Consumers, batch \in SUBSET Msgs : Poll(c, batch)
    \/ \E m \in Msgs : HandleMessage(m)
    \/ \E m \in Msgs : UnwrapSettle(m)
    \/ \E m \in Msgs : HandlerSettle(m)
    \/ \E m \in Msgs : StreamComplete(m)
    \/ \E m \in Msgs : ConsumerAck(m)
    \/ \E k \in Closes : CloseStart(k)
    \/ \E k \in Closes : CloseWake(k)
    \/ \E k \in Closes : CloseSettled(k)
    \/ Tick

Spec == Init /\ [][Next]_vars

(***************************************************************************)
(* Dispatch: one server that listens once and is not closed; one message   *)
(* of any content is processed concurrently with ordinary job messages.    *)
(***************************************************************************)
DispatchInit == Init /\ opts.shutdownTimeoutMs = 0

DispatchNext ==
    \/ \E w \in Wire : Produce(1, w)
    \/ \E m \in Msgs \ {1}, w \in JobWire : Produce(m, w)
    \/ Listens = 0 /\ Listen
    \/ \E c \in Consumers, batch \in SUBSET Msgs : Poll(c, batch)
    \/ \E m \in Msgs : HandleMessage(m)
    \/ \E m \in Msgs : UnwrapSettle(m)
    \/ \E m \in Msgs : HandlerSettle(m)
    \/ \E m \in Msgs : StreamComplete(m)
    \/ \E m \in Msgs : ConsumerAck(m)

DispatchSpec == DispatchInit /\ [][DispatchNext]_vars

(***************************************************************************)
(* Shutdown: listen() and close() calls in any order and overlap, while    *)
(* job messages are consumed; offload is disabled.                         *)
(***************************************************************************)
ShutdownInit == Init /\ ~opts.s3Enabled /\ opts.shouldDeleteMessages

ShutdownNext ==
    \/ \E m \in Msgs, w \in JobWire : Produce(m, w)
    \/ Listen
    \/ \E c \in Consumers, batch \in SUBSET Msgs : Poll(c, batch)
    \/ \E m \in Msgs : HandleMessage(m)
    \/ \E m \in Msgs : HandlerSettle(m)
    \/ \E m \in Msgs : ConsumerAck(m)
    \/ \E k \in Closes : CloseStart(k)
    \/ \E k \in Closes : CloseWake(k)
    \/ \E k \in Closes : CloseSettled(k)
    \/ Tick

ShutdownSpec == ShutdownInit /\ [][ShutdownNext]_vars

\* Liveness of close() on a server that listens once.  The timers of Node
\* fire, the clock advances, an awaiting caller resumes, and a synchronous
\* run over a received batch goes on to its end; nothing obliges a handler,
\* the queue or a producer to ever make a step.
ShutdownLiveNext ==
    \/ \E m \in Msgs, w \in JobWire : Produce(m, w)
    \/ Listens = 0 /\ Listen
    \/ \E c \in Consumers, batch \in SUBSET Msgs : Poll(c, batch)
    \/ \E m \in Msgs : HandleMessage(m)
    \/ \E m \in Msgs : HandlerSettle(m)
    \/ \E m \in Msgs : ConsumerAck(m)
    \/ \E k \in Closes : CloseStart(k)
    \/ \E k \in Closes : CloseWake(k)
    \/ \E k \in Closes : CloseSettled(k)
    \/ Tick

ShutdownLiveSpec ==
    /\ ShutdownInit /\ [][ShutdownLiveNext]_vars
    /\ WF_vars(Tick)
    /\ \A k \in Closes : WF_vars(CloseWake(k))
    /\ \A k \in Closes : WF_vars(CloseSettled(k))
    /\ \A m \in Msgs : WF_vars(HandleMessage(m))

(***************************************************************************)
(* Construction: validateServerOptions and the ServerSqs constructor.      *)
(* An option that holds an object (a client) is present or absent; a       *)
(* string option is a string, empty when absent.                           *)
(***************************************************************************)
ConsumerOptionsSpace ==
    [present : {TRUE}, queueUrl : {"", "https://sqs/queue"}]
        \cup {[present |-> FALSE, queueUrl |-> ""]}

S3LargeMessageSpace ==
    [present : {TRUE}, enabled : BOOLEAN, s3Client : BOOLEAN, bucket : {"", "bkt"}]
        \cup {[present |-> FALSE, enabled |-> FALSE, s3Client |-> FALSE,
                bucket |-> ""]}

ServerOptionsSpace ==
    [sqs : BOOLEAN, consumerOptions : ConsumerOptionsSpace,
     s3LargeMessage : S3LargeMessageSpace]

\* (a variant that does not look at the bucket)
validateWithoutBucket(options) ==
    IF ~options.sqs THEN "SQSClient is required in SqsServerOptions"
    ELSE IF ~options.consumerOptions.present \/ options.consumerOptions.queueUrl = ""
    THEN "queueUrl is required in consumerOptions"
    ELSE IF /\ options.s3LargeMessage.present /\ options.s3LargeMessage.enabled
            /\ ~options.s3LargeMessage.s3Client
    THEN "s3Client is required when s3LargeMessage is enabled"
    ELSE ""

\* The message of the error thrown, "" when none is thrown.
validateServerOptions(options) ==
    IF ~options.sqs THEN "SQSClient is required in SqsServerOptions"
    ELSE IF ~options.consumerOptions.present \/ options.consumerOptions.queueUrl = ""
    THEN "queueUrl is required in consumerOptions"
    ELSE IF /\ options.s3LargeMessage.present /\ options.s3LargeMessage.enabled
            /\ ~options.s3LargeMessage.s3Client
    THEN "s3Client is required when s3LargeMessage is enabled"
    ELSE IF /\ options.s3LargeMessage.present /\ options.s3LargeMessage.enabled
            /\ options.s3LargeMessage.bucket = ""
    THEN "bucket is required when s3LargeMessage is enabled"
    ELSE ""

\* `new ServerSqs(options)` is about to run.
ConstructInit ==
    /\ \E o \in ServerOptionsSpace :
          /\ call = [fn |-> "constructor", options |-> o, pc |-> "new", err |-> ""]
          /\ opts = [shutdownTimeoutMs |-> 0,
                     s3Enabled |-> o.s3LargeMessage.present /\ o.s3LargeMessage.enabled,
                     shouldDeleteMessages |-> TRUE]
    /\ FreshServer

\* The constructor: it validates first and throws what the validation throws.
Construct ==
    /\ call.fn = "constructor" /\ call.pc = "new"
    /\ call' = [call EXCEPT !.pc = "done", !.err = validateServerOptions(call.options)]
    /\ UNCHANGED <<opts, consumer, consumers, callbacks, activeMessages, queue, runq,
                   inv, close, closeSnap>>

\* A server object exists only when its constructor returned.
Constructed == call.fn = "constructor" /\ call.pc = "done" /\ call.err = ""

ConstructNext ==
    \/ Construct
    \/ Constructed /\ Listens = 0 /\ Listen
    \/ \E m \in Msgs, w \in JobWire : Produce(m, w)
    \/ \E c \in Consumers, batch \in SUBSET Msgs : Poll(c, batch)
    \/ \E m \in Msgs : HandleMessage(m)
    \/ \E m \in Msgs : UnwrapSettle(m)
    \/ \E m \in Msgs : HandlerSettle(m)
    \/ \E m \in Msgs : ConsumerAck(m)

ConstructSpec == ConstructInit /\ [][ConstructNext]_vars

(***************************************************************************)
(* The envelope codec on its own: a packet serialized by the client, or a  *)
(* message of another producer, is deserialized.                           *)
(***************************************************************************)
PatternKeys == {DefaultPatternKey, "type"}

DataSpace ==
    { JNull, JStr("d"), JStr(""), JNum(0), JBool(FALSE), JObj(<<>>),
      JObj([foo |-> JStr("bar")]), JObj([data |-> JStr("inner")]),
      JArr(<<>>), JArr(<<JNum(1), JNull>>) }

PacketSpace ==
    [pattern : {"ORDER_CREATED", ""}, data : DataSpace, id : {Undef, JStr("c-1")}]

NoPacket == [pattern |-> "", data |-> Undef, id |-> Undef]

\* Bodies of other producers: JSON values of every kind, objects with and
\* without the pattern-key fields, text that is not JSON, the empty body.
ForeignBodies ==
    { JsonBody(v) : v \in DataSpace }
    \cup { JsonBody(JObj(f)) : f \in
              { [pattern |-> JStr("P"), data |-> JObj([foo |-> JStr("bar")])],
                [pattern |-> JStr("P"), data |-> JNull],
                [pattern |-> JStr("P")],
                [pattern |-> JStr("P"), id |-> JStr("b-1")],
                [type |-> JStr("T"), data |-> JStr("x")],
                [type |-> JStr("T"), pattern |-> JStr("P"), data |-> JStr("x")],
                [type |-> JStr("T"), payload |-> JNum(1)] } }
    \cup { TextBody("plain text message"), EmptyBody }

ForeignAttributes ==
    { NoAttributes, PatternAttribute("RAW_PATTERN"),
      [n \in {MESSAGE_PATTERN_HEADER, CORRELATION_ID_HEADER} |->
          IF n = MESSAGE_PATTERN_HEADER THEN "RAW_PATTERN" ELSE "a-1"] }

NotDecoded == DecodeError("not decoded")

\* A serializer and a deserializer were constructed, each with its pattern
\* key.
CodecInit ==
    /\ opts = [shutdownTimeoutMs |-> 0, s3Enabled |-> FALSE,
               shouldDeleteMessages |-> TRUE]
    /\ FreshServer
    /\ \E sk \in PatternKeys, dk \in PatternKeys :
          call = [fn |-> "codec", serKey |-> sk, deKey |-> dk, pc |-> "start",
                  origin |-> "", packet |-> NoPacket, message |-> NoWire,
                  decoded |-> NotDecoded]

\* The message attributes ClientSqs.sendMessage puts beside the body.
ClientAttributes(packet) ==
    IF packet.id = Undef THEN PatternAttribute(packet.pattern)
    ELSE [n \in {MESSAGE_PATTERN_HEADER, CORRELATION_ID_HEADER} |->
             IF n = MESSAGE_PATTERN_HEADER THEN packet.pattern ELSE packet.id.s]

\* The client serializes a packet.
Serialize(packet) ==
    /\ call.fn = "codec" /\ call.pc = "start"
    /\ call' = [call EXCEPT !.pc = "wire", !.origin = "client", !.packet = packet,
                            !.message = [Body |-> serialize(packet, call.serKey),
                                         MessageAttributes |->
                                             ClientAttributes(packet)]]
    /\ UNCHANGED <<opts, consumer, consumers, callbacks, activeMessages, queue, runq,
                   inv, close, closeSnap>>

\* Another producer has put a message on the queue.
ForeignMessage(body, attributes) ==
    /\ call.fn = "codec" /\ call.pc = "start"
    /\ call' = [call EXCEPT !.pc = "wire", !.origin = "foreign",
                            !.message = [Body |-> body,
                                         MessageAttributes |-> attributes]]
    /\ UNCHANGED <<opts, consumer, consumers, callbacks, activeMessages, queue, runq,
                   inv, close, closeSnap>>

\* The server deserializes the message.
Deserialize ==
    /\ call.fn = "codec" /\ call.pc = "wire"
    /\ call' = [call EXCEPT !.pc = "decoded",
                            !.decoded = deserialize(call.message, call.deKey)]
    /\ UNCHANGED <<opts, consumer, consumers, callbacks, activeMessages, queue, runq,
                   inv, close, closeSnap>>

CodecNext ==
    \/ \E packet \in PacketSpace : Serialize(packet)
    \/ \E body \in ForeignBodies, attributes \in ForeignAttributes :
          ForeignMessage(body, attributes)
    \/ Deserialize

CodecSpec == CodecInit /\ [][CodecNext]_vars

(***************************************************************************)
(* The offload pointer on its own: a pointer body written by               *)
(* createPointerMessage, or a body of another producer, is parsed.         *)
(***************************************************************************)
PointerFormats == {"simple", "aws-extended", "auto"}
PointerKeys == {S3_POINTER_KEY, "customPtr"}

\* (a variant that writes the simple shape whatever the format)
createPointerAlwaysSimple(bucket, key, pointerFormat, pointerKey) ==
    [k |-> "json",
     v |-> Jsonify(JObj(pointerKey :> JObj([bucket |-> JStr(bucket),
                                            key |-> JStr(key)])))]

\* createPointerMessage: the extended shape for 'aws-extended', the simple
\* shape under the pointer key for 'simple' and 'auto'.
createPointerMessage(bucket, key, pointerFormat, pointerKey) ==
    IF pointerFormat = "aws-extended"
    THEN [k |-> "json",
          v |-> Jsonify(JArr(<<JObj(("@class" :> JStr(S3_POINTER_CLASS))
                                   @@ ("s3BucketName" :> JStr(bucket))
                                   @@ ("s3Key" :> JStr(key)))>>))]
    ELSE [k |-> "json",
          v |-> Jsonify(JObj(pointerKey :> JObj([bucket |-> JStr(bucket),
                                                 key |-> JStr(key)])))]

\* Candidate pointers of other producers.
ExtendedItem(class, fields) == JObj(("@class" :> JStr(class)) @@ fields)

ExtendedItems ==
    { ExtendedItem(S3_POINTER_CLASS, [s3BucketName |-> JStr("b"), s3Key |-> JStr("k")]),
      ExtendedItem("other.Class", [s3BucketName |-> JStr("b"), s3Key |-> JStr("k")]),
      ExtendedItem(S3_POINTER_CLASS, <<>>),
      ExtendedItem(S3_POINTER_CLASS, [s3Key |-> JStr("k")]),
      ExtendedItem(S3_POINTER_CLASS, [s3BucketName |-> JStr("b")]),
      ExtendedItem(S3_POINTER_CLASS, [s3BucketName |-> JNum(123), s3Key |-> JStr("k")]),
      ExtendedItem(S3_POINTER_CLASS, [s3BucketName |-> JStr("b"), s3Key |-> JNum(456)]),
      JObj([s3BucketName |-> JStr("b"), s3Key |-> JStr("k")]) }

SimpleInners ==
    { JObj([bucket |-> JStr("b"), key |-> JStr("k")]),
      JObj([key |-> JStr("k")]),
      JObj([bucket |-> JStr("b")]),
      JObj([bucket |-> JNum(123), key |-> JStr("k")]),
      JObj([bucket |-> JStr("b"), key |-> JNum(456)]),
      JNull, JStr("b/k") }

ForeignPointerBodies ==
    { JsonBody(x) : x \in ExtendedItems }
    \cup { JsonBody(JArr(<<x>>)) : x \in ExtendedItems \cup {JNull, JStr("x")} }
    \cup { JsonBody(JArr(<<>>)) }
    \cup { JsonBody(JArr(<<x, x>>)) : x \in ExtendedItems }
    \cup { JsonBody(JObj(pk :> x)) : pk \in PointerKeys, x \in SimpleInners }
    \cup { JsonBody(JNull), JsonBody(JStr("s")), JsonBody(JNum(7)),
           JsonBody(JObj([pattern |-> JStr("TEST"),
                          data |-> JObj([bucket |-> JStr("b"), key |-> JStr("k")])])),
           TextBody("plain text message"), EmptyBody }

\* An S3LargeMessageHandler was constructed with its format and pointer key.
PointerInit ==
    /\ opts = [shutdownTimeoutMs |-> 0, s3Enabled |-> TRUE,
               shouldDeleteMessages |-> TRUE]
    /\ FreshServer
    /\ \E f \in PointerFormats, pk \in PointerKeys :
          call = [fn |-> "pointer", pointerFormat |-> f, pointerKey |-> pk,
                  pc |-> "start", origin |-> "", bucket |-> "", key |-> "",
                  body |-> EmptyBody, parsed |-> NoPointer, isPointer |-> FALSE]

\* wrapIfLarge has stored a large message and writes the pointer to it.
CreatePointer(bucket, key) ==
    /\ call.fn = "pointer" /\ call.pc = "start"
    /\ call' = [call EXCEPT !.pc = "body", !.origin = "created",
                            !.bucket = bucket, !.key = key,
                            !.body = createPointerMessage(bucket, key,
                                        call.pointerFormat, call.pointerKey)]
    /\ UNCHANGED <<opts, consumer, consumers, callbacks, activeMessages, queue, runq,
                   inv, close, closeSnap>>

\* Another producer has written the body.
ForeignPointer(body) ==
    /\ call.fn = "pointer" /\ call.pc = "start"
    /\ call' = [call EXCEPT !.pc = "body", !.origin = "foreign", !.body = body]
    /\ UNCHANGED <<opts, consumer, consumers, callbacks, activeMessages, queue, runq,
                   inv, close, closeSnap>>

\* isS3Pointer and parseS3Pointer are applied to the body.
ParsePointer ==
    /\ call.fn = "pointer" /\ call.pc = "body"
    /\ call' = [call EXCEPT
                  !.pc = "parsed",
                  !.parsed = parseS3Pointer(call.body, call.pointerFormat,
                                            call.pointerKey),
                  !.isPointer = isS3Pointer(call.body, call.pointerFormat,
                                            call.pointerKey)]
    /\ UNCHANGED <<opts, consumer, consumers, callbacks, activeMessages, queue, runq,
                   inv, close, closeSnap>>

PointerNext ==
    \/ \E bucket \in {"bkt", ""}, key \in {"sqs-messages/1", ""} :
          CreatePointer(bucket, key)
    \/ \E body \in ForeignPointerBodies : ForeignPointer(body)
    \/ ParsePointer

PointerSpec == PointerInit /\ [][PointerNext]_vars

(***************************************************************************)
(* S3LargeMessageHandler on its own: wrapIfLarge, unwrapIfPointer and      *)
(* deleteS3Object against an object store that may fail.                   *)
(***************************************************************************)
MaxChars == 3          \* characters of a message text given by its characters

S3_DEFAULT_THRESHOLD == 245760
S3_DEFAULT_KEY_PREFIX == "sqs-messages/"

\* A text given by its Unicode code points (not JSON, not empty).
CharBody(c) == [k |-> "chars", c |-> c]

\* x, e-acute, an emoji: 1, 2 and 4 bytes in UTF-8; the
\* emoji is two UTF-16 code units, the others one.
Alphabet == {120, 233, 128512}
CharBodies == { CharBody(c) : c \in UNION { [1 .. n -> Alphabet] : n \in 1 .. MaxChars } }

Utf8Bytes(cp) ==
    IF cp < 128 THEN 1 ELSE IF cp < 2048 THEN 2 ELSE IF cp < 65536 THEN 3 ELSE 4
Utf16Units(cp) == IF cp < 65536 THEN 1 ELSE 2

RECURSIVE Utf8Length(_)
Utf8Length(c) == IF c = <<>> THEN 0 ELSE Utf8Bytes(Head(c)) + Utf8Length(Tail(c))

RECURSIVE Utf16Length(_)
Utf16Length(c) == IF c = <<>> THEN 0 ELSE Utf16Units(Head(c)) + Utf16Length(Tail(c))

RECURSIVE Digits(_)
Digits(n) == IF n < 10 THEN 1 ELSE 1 + Digits(n \div 10)

\* The length of the text JSON.stringify writes for a value.  The strings
\* and property names of the model's JSON values are ASCII and need no
\* escape, so each of their characters is one byte and one code unit.
RECURSIVE JsonTextLength(_)
RECURSIVE FieldsTextLength(_, _)
RECURSIVE ItemsTextLength(_)
JsonTextLength(v) ==
    IF v.t = "null" THEN 4
    ELSE IF v.t = "bool" THEN (IF v.b THEN 4 ELSE 5)
    ELSE IF v.t = "num" THEN Digits(v.n)
    ELSE IF v.t = "str" THEN Len(v.s) + 2
    ELSE IF v.t = "arr"
    THEN 2 + ItemsTextLength(v.e) + (IF Len(v.e) > 1 THEN Len(v.e) - 1 ELSE 0)
    ELSE 2 + FieldsTextLength(v.f, DOMAIN v.f)
           + (IF Cardinality(DOMAIN v.f) > 1 THEN Cardinality(DOMAIN v.f) - 1 ELSE 0)
FieldsTextLength(f, keys) ==
    IF keys = {} THEN 0
    ELSE LET key == CHOOSE key \in keys : TRUE
         IN  Len(key) + 3 + JsonTextLength(f[key]) + FieldsTextLength(f, keys \ {key})
ItemsTextLength(e) ==
    IF e = <<>> THEN 0 ELSE JsonTextLength(Head(e)) + ItemsTextLength(Tail(e))

\* message.length: UTF-16 code units.
CharCount(message) ==
    IF message.k = "empty" THEN 0
    ELSE IF message.k = "chars" THEN Utf16Length(message.c)
    ELSE IF message.k = "json" THEN JsonTextLength(message.v)
    ELSE Len(message.s)

\* Buffer.byteLength(message, 'utf8')
ByteLength(message) ==
    IF message.k = "empty" THEN 0
    ELSE IF message.k = "chars" THEN Utf8Length(message.c)
    ELSE IF message.k = "json" THEN JsonTextLength(message.v)
    ELSE Len(message.s)

\* (a variant that measures the message in characters)
FitsByCharacterCount(message, threshold) == CharCount(message) <= threshold

\* if (messageBytes <= this.threshold) return message
FitsThreshold(message, threshold) == ByteLength(message) <= threshold

\* The fields the S3LargeMessageHandler constructor sets: option ?? default.
HandlerThreshold(options) ==
    IF options.threshold = Undef THEN S3_DEFAULT_THRESHOLD ELSE options.threshold.n
HandlerKeyPrefix(options) ==
    IF options.keyPrefix = Undef THEN S3_DEFAULT_KEY_PREFIX ELSE options.keyPrefix.s
HandlerPointerFormat(options) ==
    IF options.pointerFormat = Undef THEN "auto" ELSE options.pointerFormat.s
HandlerPointerKey(options) ==
    IF options.pointerKey = Undef THEN S3_POINTER_KEY ELSE options.pointerKey.s

\* Commands sent to the store client.
PutObjectCommand(bucket, key, body) ==
    [cmd |-> "PutObject", Bucket |-> bucket, Key |-> key, Body |-> body,
     ContentType |-> "application/json"]
GetObjectCommand(bucket, key) == [cmd |-> "GetObject", Bucket |-> bucket, Key |-> key]
DeleteObjectCommand(bucket, key) ==
    [cmd |-> "DeleteObject", Bucket |-> bucket, Key |-> key]

\* Errors: none, an error the store client rejects with, the handler's own
\* `Failed to read S3 object: ${pointer.key}`.
NoError == [e |-> "none"]
StoreError(code) == [e |-> "store", code |-> code]
ReadErrorWithoutKey(key) == [e |-> "Failed to read S3 object"]
ReadError(key) == [e |-> "Failed to read S3 object", key |-> key]

\* How a command sent to the store settles: the client rejects, or it
\* resolves; a GetObject resolves without a Body, with a Body whose text is
\* empty, or with a Body whose text is the object's content.
StoreErrors == { StoreError("AccessDenied"), StoreError("SlowDown") }
StoreContents == { Envelope("evt", "big"), TextBody("plain text message") }
SendOutcomes ==
    { [ok |-> FALSE, err |-> e] : e \in StoreErrors } \cup { [ok |-> TRUE, err |-> NoError] }
GetOutcomes ==
    { [ok |-> FALSE, err |-> e, hasBody |-> FALSE, text |-> EmptyBody] : e \in StoreErrors }
    \cup { [ok |-> TRUE, err |-> NoError, hasBody |-> FALSE, text |-> EmptyBody] }
    \cup { [ok |-> TRUE, err |-> NoError, hasBody |-> TRUE, text |-> t] :
              t \in StoreContents \cup {EmptyBody} }

Uuids == {"u1", "u2"}

HandlerOptionsSpace ==
    [bucket : {"bkt"}, threshold : {Undef, JNum(0), JNum(3), JNum(4)},
     keyPrefix : {Undef, JStr("")},
     pointerFormat : {Undef, JStr("simple"), JStr("aws-extended")},
     pointerKey : {Undef, JStr("customPtr")}]

\* Messages handed to the handler: texts of every length around the
\* thresholds, pointer bodies it wrote itself, bodies of other producers.
OffloadMessages ==
    CharBodies \cup ForeignPointerBodies
    \cup { createPointerMessage("bkt", "sqs-messages/u1", f, pk) :
              f \in PointerFormats, pk \in PointerKeys }

\* No command has settled yet.
NoResponse == [ok |-> FALSE, err |-> NoError]

IdleOffload(fn, options) ==
    [fn |-> fn, options |-> options, pc |-> "start", op |-> "",
     message |-> EmptyBody, s3Key |-> "", pointer |-> NoPointer, sent |-> <<>>,
     response |-> NoResponse, returned |-> FALSE, result |-> EmptyBody,
     err |-> NoError]

OffloadInit ==
    /\ opts = [shutdownTimeoutMs |-> 0, s3Enabled |-> TRUE,
               shouldDeleteMessages |-> TRUE]
    /\ FreshServer
    /\ \E o \in HandlerOptionsSpace : call = IdleOffload("offload", o)

\* wrapIfLarge up to its return or to the await of the upload.
wrapIfLarge(c, message, uuid) ==
    IF FitsThreshold(message, HandlerThreshold(c.options))
    THEN [c EXCEPT !.op = "wrapIfLarge", !.message = message, !.pc = "done",
                   !.returned = TRUE, !.result = message]
    ELSE [c EXCEPT !.op = "wrapIfLarge", !.message = message, !.pc = "put",
                   !.s3Key = HandlerKeyPrefix(c.options) \o uuid,
                   !.sent = Append(@, PutObjectCommand(c.options.bucket,
                                        HandlerKeyPrefix(c.options) \o uuid, message))]

\* (a variant whose pointer names the key with the prefix put in front of
\* it a second time)
wrapSettledPrefixTwice(c, o) ==
    IF ~o.ok THEN [c EXCEPT !.pc = "done", !.err = o.err]
    ELSE [c EXCEPT !.pc = "done", !.returned = TRUE,
                   !.result = createPointerMessage(c.options.bucket,
                                 S3_DEFAULT_KEY_PREFIX \o c.s3Key,
                                 HandlerPointerFormat(c.options),
                                 HandlerPointerKey(c.options))]

\* The upload settled: the pointer is returned, or the store's error thrown.
wrapSettled(c, o) ==
    IF ~o.ok THEN [c EXCEPT !.pc = "done", !.err = o.err]
    ELSE [c EXCEPT !.pc = "done", !.returned = TRUE,
                   !.result = createPointerMessage(c.options.bucket, c.s3Key,
                                 HandlerPointerFormat(c.options),
                                 HandlerPointerKey(c.options))]

\* unwrapIfPointer up to its return or to the await of the download.
unwrapIfPointer(c, message) ==
    LET pointer == parseS3Pointer(message, HandlerPointerFormat(c.options),
                                  HandlerPointerKey(c.options))
    IN  IF ~pointer.found
        THEN [c EXCEPT !.op = "unwrapIfPointer", !.message = message, !.pc = "done",
                       !.returned = TRUE, !.result = message]
        ELSE [c EXCEPT !.op = "unwrapIfPointer", !.message = message, !.pc = "get",
                       !.pointer = pointer,
                       !.sent = Append(@, GetObjectCommand(pointer.bucket, pointer.key))]

\* The download settled: response.Body?.transformToString(), then the
\* check of the text.
unwrapSettled(c, o) ==
    IF ~o.ok THEN [c EXCEPT !.pc = "done", !.err = o.err]
    ELSE IF ~o.hasBody \/ o.text.k = "empty"
    THEN [c EXCEPT !.pc = "done", !.err = ReadError(c.pointer.key)]
    ELSE [c EXCEPT !.pc = "done", !.returned = TRUE, !.result = o.text]

\* deleteS3Object up to its return or to the await of the delete.
deleteS3Object(c, message) ==
    LET pointer == parseS3Pointer(message, HandlerPointerFormat(c.options),
                                  HandlerPointerKey(c.options))
    IN  IF ~pointer.found
        THEN [c EXCEPT !.op = "deleteS3Object", !.message = message, !.pc = "done",
                       !.returned = TRUE]
        ELSE [c EXCEPT !.op = "deleteS3Object", !.message = message,
                       !.pc = "delete", !.pointer = pointer,
                       !.sent = Append(@, DeleteObjectCommand(pointer.bucket,
                                                              pointer.key))]

deleteSettled(c, o) ==
    IF ~o.ok THEN [c EXCEPT !.pc = "done", !.err = o.err]
    ELSE [c EXCEPT !.pc = "done", !.returned = TRUE]

WrapIfLarge(message, uuid) ==
    /\ call.fn = "offload" /\ call.pc = "start"
    /\ call' = wrapIfLarge(call, message, uuid)
    /\ UNCHANGED <<opts, consumer, consumers, callbacks, activeMessages, queue, runq,
                   inv, close, closeSnap>>

PutSettle(o) ==
    /\ call.fn = "offload" /\ call.pc = "put"
    /\ call' = [wrapSettled(call, o) EXCEPT !.response = o]
    /\ UNCHANGED <<opts, consumer, consumers, callbacks, activeMessages, queue, runq,
                   inv, close, closeSnap>>

UnwrapIfPointer(message) ==
    /\ call.fn = "offload" /\ call.pc = "start"
    /\ call' = unwrapIfPointer(call, message)
    /\ UNCHANGED <<opts, consumer, consumers, callbacks, activeMessages, queue, runq,
                   inv, close, closeSnap>>

GetSettle(o) ==
    /\ call.fn = "offload" /\ call.pc = "get"
    /\ call' = [unwrapSettled(call, o) EXCEPT !.response = o]
    /\ UNCHANGED <<opts, consumer, consumers, callbacks, activeMessages, queue, runq,
                   inv, close, closeSnap>>

DeleteS3Object(message) ==
    /\ call.fn = "offload" /\ call.pc = "start"
    /\ call' = deleteS3Object(call, message)
    /\ UNCHANGED <<opts, consumer, consumers, callbacks, activeMessages, queue, runq,
                   inv, close, closeSnap>>

DeleteSettle(o) ==
    /\ call.fn = "offload" /\ call.pc = "delete"
    /\ call' = [deleteSettled(call, o) EXCEPT !.response = o]
    /\ UNCHANGED <<opts, consumer, consumers, callbacks, activeMessages, queue, runq,
                   inv, close, closeSnap>>

OffloadNext ==
    \/ \E message \in OffloadMessages, uuid \in Uuids : WrapIfLarge(message, uuid)
    \/ \E o \in SendOutcomes : PutSettle(o)
    \/ \E message \in OffloadMessages : UnwrapIfPointer(message)
    \/ \E o \in GetOutcomes : GetSettle(o)
    \/ \E message \in OffloadMessages : DeleteS3Object(message)
    \/ \E o \in SendOutcomes : DeleteSettle(o)

OffloadSpec == OffloadInit /\ [][OffloadNext]_vars

(***************************************************************************)
(* ClientSqs: publish (request-style) and dispatchEvent (fire-and-forget)  *)
(* both run sendMessage, which serializes, offloads a large body, builds   *)
(* the producer message and submits it to the queue.                       *)
(***************************************************************************)
\* A value JSON.stringify throws on (a circular structure).
Circular == [t |-> "circular"]
JsonStringifyThrows(v) == v = Circular
EncodeError == [e |-> "TypeError", message |-> "Converting circular structure to JSON"]
QueueErrors == { [e |-> "queue", code |-> "Send failed"] }

\* A configured function (pattern, data) => string, and its result.
ConfiguredFunction(name) == [t |-> "function", name |-> name]
Applied(f, pattern, data) ==
    [t |-> "applied", name |-> f.name, pattern |-> pattern, data |-> data]

\* createHash('sha256').update(text).digest('hex'), taken as free of
\* collisions: the digest stands for the text it was computed from.
Sha256Hex(text) == [t |-> "sha256", of |-> text]

\* DeduplicationHelper.contentBasedDeduplicationId
contentBasedDeduplicationId(content) ==
    IF content.t = "str" THEN Sha256Hex(TextBody(content.s))
    ELSE Sha256Hex(JsonBody(Jsonify(content)))

\* const messageId = correlationId ?? uuidv4()
MessageId(correlationId, uuid) ==
    IF correlationId \in {Undef, JNull} THEN JStr(uuid) ELSE correlationId

StringAttribute(value) == [DataType |-> "String", StringValue |-> value]

\* (a variant that attaches the identifier as correlation id on every send)
AttributesAlwaysCorrelated(pattern, correlationId, messageId) ==
    (MESSAGE_PATTERN_HEADER :> StringAttribute(JStr(pattern)))
        @@ (CORRELATION_ID_HEADER :> StringAttribute(messageId))

\* The message attributes: the pattern always, the correlation id if one
\* was passed (if (correlationId)).
MessageAttributes(pattern, correlationId, messageId) ==
    IF correlationId \notin {Undef, JNull, JStr("")}
    THEN (MESSAGE_PATTERN_HEADER :> StringAttribute(JStr(pattern)))
            @@ (CORRELATION_ID_HEADER :> StringAttribute(correlationId))
    ELSE (MESSAGE_PATTERN_HEADER :> StringAttribute(JStr(pattern)))

\* this.options.fifo?.enabled
FifoEnabled(options) == options.fifo # Undef /\ options.fifo.enabled

\* (a variant that ignores a configured function)
GroupIdWithoutFunction(fifo, pattern, data) ==
    IF fifo.messageGroupId.t \in {"undefined", "null", "function"} THEN JStr(pattern)
    ELSE fifo.messageGroupId

\* The message group id: the function's result, the static value, or the
\* pattern (messageGroupId ?? pattern).
GroupId(fifo, pattern, data) ==
    IF fifo.messageGroupId.t = "function"
    THEN Applied(fifo.messageGroupId, pattern, data)
    ELSE IF fifo.messageGroupId.t \in {"undefined", "null"} THEN JStr(pattern)
    ELSE fifo.messageGroupId

\* (a variant that hashes the data alone)
DeduplicationIdOfData(fifo, pattern, data) ==
    IF fifo.contentBasedDeduplication = JBool(TRUE) THEN Undef
    ELSE IF fifo.deduplicationId # Undef
    THEN Applied(fifo.deduplicationId, pattern, data)
    ELSE contentBasedDeduplicationId(JObj([data |-> data]))

\* The deduplication id: none when contentBasedDeduplication is true, else
\* the function's result or the content hash of {pattern, data}.
DeduplicationId(fifo, pattern, data) ==
    IF fifo.contentBasedDeduplication = JBool(TRUE) THEN Undef
    ELSE IF fifo.deduplicationId # Undef
    THEN Applied(fifo.deduplicationId, pattern, data)
    ELSE contentBasedDeduplicationId(JObj([pattern |-> JStr(pattern), data |-> data]))

\* The producer message; a property that is not set is undefined.
ProducerMessage(options, packet, correlationId, messageId, body) ==
    [id |-> messageId, body |-> body,
     messageAttributes |-> MessageAttributes(packet.pattern, correlationId, messageId),
     groupId |-> IF FifoEnabled(options)
                 THEN GroupId(options.fifo, packet.pattern, packet.data) ELSE Undef,
     deduplicationId |-> IF FifoEnabled(options)
                         THEN DeduplicationId(options.fifo, packet.pattern, packet.data)
                         ELSE Undef]

\* The pattern key of the serializer: options.serializer ?? new SqsSerializer()
SerializerKey(options) ==
    IF options.serializer = Undef THEN DefaultPatternKey ELSE options.serializer.s

\* No S3LargeMessageHandler was constructed.
NoHandler == [fn |-> "none"]

\* (a variant that keeps the serialized body after the offload)
BodyIgnoringWrap(serialized, handler) == serialized

\* body = await this.s3Handler.wrapIfLarge(body)
BodyAfterWrap(serialized, handler) == handler.result

\* (a variant that reports success whatever happened)
CallbackAlwaysSuccess(ok, err) == [response |-> [success |-> TRUE]]

\* What publish passes to its callback: then / catch.
CallbackPacket(ok, err) ==
    IF ok THEN [response |-> [success |-> TRUE]] ELSE [err |-> err]

NoPacketSent == [pattern |-> "", data |-> Undef]
\* What is remembered of the send before: its packet and the keys of the
\* message it submitted.
NoSend == [sent |-> FALSE, packet |-> NoPacketSent, groupId |-> Undef,
           deduplicationId |-> Undef]

\* A ClientSqs object that was just constructed.
IdleClient(options) ==
    [fn |-> "client", options |-> options, connected |-> FALSE, pc |-> "idle",
     kind |-> "", packet |-> NoPacketSent, correlationId |-> Undef,
     messageId |-> Undef, serialized |-> EmptyBody,
     handler |-> IF options.s3LargeMessage # Undef /\ options.s3LargeMessage.enabled
                 THEN IdleOffload("handler", options.s3LargeMessage)
                 ELSE NoHandler,
     submitted |-> <<>>, trace |-> <<>>, callbacks |-> <<>>, settled |-> "",
     value |-> Undef, err |-> NoError, logged |-> <<>>,
     queueResponse |-> NoResponse, previous |-> NoSend]

\* (a variant that deletes the uploaded object when the send fails)
sendFailedWithDelete(c, e) ==
    [c EXCEPT !.pc = "done", !.logged = Append(@, e), !.err = e,
              !.settled = "rejected",
              !.handler = IF c.handler # NoHandler /\ c.handler.sent # <<>>
                          THEN [@ EXCEPT !.sent =
                                   Append(@, DeleteObjectCommand(c.handler.sent[1].Bucket,
                                                                 c.handler.sent[1].Key))]
                          ELSE @,
              !.callbacks = IF c.kind = "publish"
                            THEN Append(@, [err |-> e]) ELSE @]

\* The catch of sendMessage logs the error and throws it again; publish
\* hands it to the callback, dispatchEvent rejects with it.
sendFailed(c, e) ==
    [c EXCEPT !.pc = "done", !.logged = Append(@, e), !.err = e,
              !.settled = "rejected",
              !.callbacks = IF c.kind = "publish"
                            THEN Append(@, CallbackPacket(FALSE, e)) ELSE @]

\* From the producer message to the await of producer.send.
submit(c, body) ==
    LET message == ProducerMessage(c.options, c.packet, c.correlationId,
                                   c.messageId, body)
    IN  [c EXCEPT !.pc = "send", !.submitted = Append(@, <<message>>),
                  !.trace = Append(@, "producer.send")]

\* sendMessage up to its first await of the store or of the queue.
sendMessage(c, s3Uuid) ==
    IF JsonStringifyThrows(c.packet.data) THEN sendFailed(c, EncodeError)
    ELSE LET body == serialize([pattern |-> c.packet.pattern, data |-> c.packet.data,
                                id |-> c.messageId], SerializerKey(c.options))
             s == [c EXCEPT !.serialized = body]
         IN  IF c.handler = NoHandler THEN submit(s, body)
             ELSE LET h == wrapIfLarge(c.handler, body, s3Uuid)
                  IN  IF h.pc = "done"
                      THEN submit([s EXCEPT !.handler = h], BodyAfterWrap(body, h))
                      ELSE [s EXCEPT !.handler = h, !.pc = "put",
                                     !.trace = Append(@, "s3.send")]

\* A send starts: the finished one before it is remembered.
started(c, kind, packet, correlationId, uuid) ==
    [c EXCEPT !.kind = kind, !.packet = packet, !.correlationId = correlationId,
              !.messageId = MessageId(correlationId, uuid),
              !.serialized = EmptyBody,
              !.handler = IF c.handler = NoHandler THEN NoHandler
                          ELSE IdleOffload("handler", c.options.s3LargeMessage),
              !.submitted = <<>>, !.trace = <<>>, !.callbacks = <<>>,
              !.settled = "", !.value = Undef, !.err = NoError, !.logged = <<>>,
              !.queueResponse = NoResponse,
              !.previous = IF c.pc = "done" /\ c.submitted # <<>>
                           THEN [sent |-> TRUE, packet |-> c.packet,
                                 groupId |-> c.submitted[1][1].groupId,
                                 deduplicationId |-> c.submitted[1][1].deduplicationId]
                           ELSE c.previous]

\* The upload of wrapIfLarge settled.
uploadSettled(c, o) ==
    LET h == [wrapSettled(c.handler, o) EXCEPT !.response = o]
    IN  IF h.err # NoError THEN sendFailed([c EXCEPT !.handler = h], h.err)
        ELSE submit([c EXCEPT !.handler = h], BodyAfterWrap(c.serialized, h))

\* producer.send settled: results[0]?.MessageId ?? messageId is returned.
sendSettled(c, o) ==
    IF ~o.ok THEN sendFailed(c, o.err)
    ELSE [c EXCEPT !.pc = "done", !.settled = "resolved",
                   !.value = IF c.kind = "publish"
                             THEN (IF o.results # <<>> /\ o.results[1].MessageId # Undef
                                   THEN o.results[1].MessageId ELSE c.messageId)
                             ELSE Undef,
                   !.callbacks = IF c.kind = "publish"
                                 THEN Append(@, CallbackPacket(TRUE, NoError)) ELSE @]

\* How producer.send settles: the queue accepted the batch (with or without
\* a message id in the result) or the submission failed.
ProducerOutcomes ==
    { [ok |-> FALSE, err |-> e, results |-> <<>>] : e \in QueueErrors }
    \cup { [ok |-> TRUE, err |-> NoError, results |-> r] :
              r \in { <<>>, <<[MessageId |-> Undef]>>,
                      <<[MessageId |-> JStr("sent-msg-123")]>> } }

ClientPatterns == {"ORDER_CREATED", "USER_UPDATED"}
ClientData ==
    { Undef, JObj([orderId |-> JStr("123")]), JObj([orderId |-> JStr("456")]), Circular }
ClientPackets == [pattern : ClientPatterns, data : ClientData]

FifoOptionsSpace ==
    [enabled : BOOLEAN, contentBasedDeduplication : {Undef, JBool(TRUE), JBool(FALSE)},
     messageGroupId : {Undef, JStr("test-group"), ConfiguredFunction("groupOf")},
     deduplicationId : {Undef, ConfiguredFunction("dedupOf")}]

\* {"pattern":"ORDER_CREATED","data":{"orderId":"123"},"id":"u1"} is 62
\* bytes long.
ClientOffloadSpace ==
    [enabled : {TRUE}, bucket : {"bkt"}, threshold : {JNum(61), JNum(62)},
     keyPrefix : {Undef}, pointerFormat : {Undef, JStr("aws-extended")},
     pointerKey : {Undef}]
    \cup [enabled : {FALSE}, bucket : {"bkt"}, threshold : {JNum(0)},
          keyPrefix : {Undef}, pointerFormat : {Undef}, pointerKey : {Undef}]

ClientOptionsSpace ==
    [serializer : {Undef, JStr("type")},
     s3LargeMessage : {Undef} \cup ClientOffloadSpace,
     fifo : {Undef} \cup FifoOptionsSpace]

\* new ClientSqs(options) has returned.
ClientInit ==
    /\ opts = [shutdownTimeoutMs |-> 0, s3Enabled |-> FALSE,
               shouldDeleteMessages |-> TRUE]
    /\ FreshServer
    /\ \E o \in ClientOptionsSpace : call = IdleClient(o)

\* publish(packet, callback): sendMessage with a fresh correlation id.
Publish(packet, uuid, s3Uuid) ==
    /\ call.fn = "client" /\ call.pc \in {"idle", "done"}
    /\ call' = sendMessage(started(call, "publish", packet, JStr(uuid), uuid), s3Uuid)
    /\ UNCHANGED <<opts, consumer, consumers, callbacks, activeMessages, queue, runq,
                   inv, close, closeSnap>>

\* dispatchEvent(packet): sendMessage without a correlation id.
DispatchEvent(packet, uuid, s3Uuid) ==
    /\ call.fn = "client" /\ call.pc \in {"idle", "done"}
    /\ call' = sendMessage(started(call, "dispatchEvent", packet, Undef, uuid), s3Uuid)
    /\ UNCHANGED <<opts, consumer, consumers, callbacks, activeMessages, queue, runq,
                   inv, close, closeSnap>>

UploadSettle(o) ==
    /\ call.fn = "client" /\ call.pc = "put"
    /\ call' = uploadSettled(call, o)
    /\ UNCHANGED <<opts, consumer, consumers, callbacks, activeMessages, queue, runq,
                   inv, close, closeSnap>>

SendSettle(o) ==
    /\ call.fn = "client" /\ call.pc = "send"
    /\ call' = [sendSettled(call, o) EXCEPT !.queueResponse = o]
    /\ UNCHANGED <<opts, consumer, consumers, callbacks, activeMessages, queue, runq,
                   inv, close, closeSnap>>

\* One send of a client with any options.
ClientNext ==
    \/ \E packet \in ClientPackets, uuid \in Uuids :
          call.pc = "idle" /\ Publish(packet, uuid, "u2")
    \/ \E packet \in ClientPackets, uuid \in Uuids :
          call.pc = "idle" /\ DispatchEvent(packet, uuid, "u2")
    \/ \E o \in SendOutcomes : UploadSettle(o)
    \/ \E o \in ProducerOutcomes : SendSettle(o)

ClientSpec == ClientInit /\ [][ClientNext]_vars

\* Sends one after the other, without offload.
FifoInit ==
    /\ ClientInit
    /\ call.options.serializer = Undef
    /\ call.options.s3LargeMessage = Undef

FifoPackets == { p \in ClientPackets : p.data # Circular }

FifoNext ==
    \/ \E packet \in FifoPackets, uuid \in Uuids : Publish(packet, uuid, "u2")
    \/ \E packet \in FifoPackets, uuid \in Uuids : DispatchEvent(packet, uuid, "u2")
    \/ \E o \in ProducerOutcomes : SendSettle(o)

FifoSpec == FifoInit /\ [][FifoNext]_vars

(***************************************************************************)
(* The ClientSqs constructor, connect and close.                           *)
(***************************************************************************)
ClientConstructorOptionsSpace ==
    [sqs : BOOLEAN, queueUrl : {"", "https://sqs/queue"},
     s3LargeMessage : S3LargeMessageSpace]

\* Producer.create({queueUrl, sqs}) of the producer library: it returns a
\* producer, or it may reject options without a queue URL with an error of
\* its own.
ProducerCreateErrors(options) ==
    IF options.queueUrl = "" THEN {"", "Missing SQS producer option [ queueUrl ]."}
    ELSE {""}

\* `new ClientSqs(options)` is about to run.
ClientConstructInit ==
    /\ opts = [shutdownTimeoutMs |-> 0, s3Enabled |-> FALSE,
               shouldDeleteMessages |-> TRUE]
    /\ FreshServer
    /\ \E o \in ClientConstructorOptionsSpace :
          call = [fn |-> "ClientSqs", options |-> o, pc |-> "new", err |-> "",
                  producer |-> FALSE, s3Handler |-> FALSE, connected |-> FALSE]

\* The constructor: it creates the producer, the serializer, the offload
\* handler if offload is enabled, and the observability helper.
ClientConstruct(producerError) ==
    /\ call.fn = "ClientSqs" /\ call.pc = "new"
    /\ producerError \in ProducerCreateErrors(call.options)
    /\ call' = IF producerError # ""
               THEN [call EXCEPT !.pc = "done", !.err = producerError]
               ELSE [call EXCEPT !.pc = "done", !.producer = TRUE,
                                 !.s3Handler = /\ call.options.s3LargeMessage.present
                                               /\ call.options.s3LargeMessage.enabled]
    /\ UNCHANGED <<opts, consumer, consumers, callbacks, activeMessages, queue, runq,
                   inv, close, closeSnap>>

\* connect() and close() set the connected flag and log.
ClientConnect ==
    /\ call.fn = "ClientSqs" /\ call.pc = "done" /\ call.err = ""
    /\ ~call.connected
    /\ call' = [call EXCEPT !.connected = TRUE]
    /\ UNCHANGED <<opts, consumer, consumers, callbacks, activeMessages, queue, runq,
                   inv, close, closeSnap>>

ClientClose ==
    /\ call.fn = "ClientSqs" /\ call.pc = "done" /\ call.err = ""
    /\ call.connected
    /\ call' = [call EXCEPT !.connected = FALSE]
    /\ UNCHANGED <<opts, consumer, consumers, callbacks, activeMessages, queue, runq,
                   inv, close, closeSnap>>

ClientConstructNext ==
    \/ \E e \in {"", "Missing SQS producer option [ queueUrl ]."} : ClientConstruct(e)
    \/ ClientConnect
    \/ ClientClose

ClientConstructSpec == ClientConstructInit /\ [][ClientConstructNext]_vars

(***************************************************************************)
(* ClientSqs.emitBatch: the messages are built as sendMessage builds them, *)
(* cut into chunks of ten and submitted chunk by chunk.                    *)
(***************************************************************************)
MaxEmit == 21          \* messages in one emitBatch call

EmitBatchChunkSize == 10

\* messages[i] of the call: { pattern: 'TEST_EVENT', data: { index: i } }
BatchInput(n) ==
    [i \in 1 .. n |-> [pattern |-> "TEST_EVENT", data |-> JObj([index |-> JNum(i - 1)])]]

\* The producer messages of the inputs: the i-th has the i-th uuid.
BatchMessages(options, input) ==
    [i \in 1 .. Len(input) |->
        ProducerMessage(options, input[i], Undef, MessageId(Undef, "u" \o ToString(i)),
                        serialize([pattern |-> input[i].pattern, data |-> input[i].data,
                                   id |-> MessageId(Undef, "u" \o ToString(i))],
                                  SerializerKey(options)))]

\* (a variant that submits the whole list at once)
WholeList(messages, k) == IF k = 1 THEN messages ELSE <<>>

\* The k-th chunk of a list.
Chunk(messages, k) ==
    SubSeq(messages, (k - 1) * EmitBatchChunkSize + 1,
           IF k * EmitBatchChunkSize < Len(messages)
           THEN k * EmitBatchChunkSize ELSE Len(messages))

\* What a batch call that the queue accepted returns: one entry per
\* message, in order.
BatchResults(chunk) ==
    [i \in 1 .. Len(chunk) |->
        [Id |-> chunk[i].id, MessageId |-> [t |-> "queue-id", of |-> chunk[i].id]]]

BatchOptionsSpace ==
    [serializer : {Undef}, s3LargeMessage : {Undef},
     fifo : {Undef, [enabled |-> TRUE, contentBasedDeduplication |-> Undef,
                     messageGroupId |-> JStr("test-group"),
                     deduplicationId |-> Undef]}]

EmitBatchInit ==
    /\ opts = [shutdownTimeoutMs |-> 0, s3Enabled |-> FALSE,
               shouldDeleteMessages |-> TRUE]
    /\ FreshServer
    /\ \E o \in BatchOptionsSpace :
          call = [fn |-> "emitBatch", options |-> o, pc |-> "idle", input |-> <<>>,
                  messages |-> <<>>, submitted |-> <<>>, results |-> <<>>,
                  settled |-> "", err |-> NoError]

\* Submits the next chunk, or returns the results when none is left.
emitNext(c) ==
    LET chunk == Chunk(c.messages, Len(c.submitted) + 1)
    IN  IF chunk = <<>> THEN [c EXCEPT !.pc = "done", !.settled = "resolved"]
        ELSE [c EXCEPT !.pc = "send", !.submitted = Append(@, chunk)]

EmitBatch(n) ==
    /\ call.fn = "emitBatch" /\ call.pc = "idle"
    /\ call' = emitNext([call EXCEPT !.input = BatchInput(n),
                                     !.messages = BatchMessages(call.options,
                                                                BatchInput(n))])
    /\ UNCHANGED <<opts, consumer, consumers, callbacks, activeMessages, queue, runq,
                   inv, close, closeSnap>>

\* The batch call settled: its results are appended, or the call fails
\* with the error of the chunk.
BatchSettle(ok, e) ==
    /\ call.fn = "emitBatch" /\ call.pc = "send"
    /\ call' = IF ok
               THEN emitNext([call EXCEPT !.results =
                                 @ \o BatchResults(call.submitted[Len(call.submitted)])])
               ELSE [call EXCEPT !.pc = "done", !.settled = "rejected", !.err = e]
    /\ UNCHANGED <<opts, consumer, consumers, callbacks, activeMessages, queue, runq,
                   inv, close, closeSnap>>

EmitBatchNext ==
    \/ \E n \in 0 .. MaxEmit : EmitBatch(n)
    \/ \E e \in QueueErrors : BatchSettle(FALSE, e)
    \/ BatchSettle(TRUE, NoError)

EmitBatchSpec == EmitBatchInit /\ [][EmitBatchNext]_vars

(***************************************************************************)
(* A client constructed with options.patternKey.  The constructor reads    *)
(* options.serializer only; options.patternKey is not passed on.           *)
(***************************************************************************)
PatternKeyOptionsSpace ==
    [serializer : {Undef, JStr("type")}, s3LargeMessage : {Undef}, fifo : {Undef},
     patternKey : {Undef, JStr("type"), JStr("eventType")}]

PatternKeyInit ==
    /\ opts = [shutdownTimeoutMs |-> 0, s3Enabled |-> FALSE,
               shouldDeleteMessages |-> TRUE]
    /\ FreshServer
    /\ \E o \in PatternKeyOptionsSpace : call = IdleClient(o)

PatternKeySpec == PatternKeyInit /\ [][FifoNext]_vars

(***************************************************************************)
(* ObservabilityHelper: createSpan and recordMetric.  The tracing and      *)
(* metrics backend is the optional OpenTelemetry API; the logger is the    *)
(* one given in the options.                                               *)
(***************************************************************************)
ErrorObject(message) == [t |-> "Error", message |-> message]

\* err.message of a thrown value: a string has no message property.
ErrorMessage(e) == IF e.t = "Error" THEN JStr(e.message) ELSE Undef

\* What fn does when it is called: it returns or throws at once, or it
\* returns a promise that settles later.
FnKinds == {"returns", "throws", "resolves", "rejects"}
FnValues == {JStr("result"), Undef}
FnErrors == {ErrorObject("Sync error"), ErrorObject("Async error"), JStr("failure")}
FnBehaviours ==
    [kind : {"returns", "resolves"}, v : FnValues]
    \cup [kind : {"throws", "rejects"}, v : FnErrors]

SpanAttributes == {Undef, JArr(<<"sqs.pattern", "sqs.queue_url">>)}

ObservabilityOptionsSpace ==
    [tracing : {Undef, JBool(FALSE), JBool(TRUE)},
     metrics : {Undef, JBool(FALSE), JBool(TRUE)},
     logger : BOOLEAN,
     level : {Undef, JStr("debug"), JStr("info"), JStr("warn"), JStr("error")}]

NoSpan == [started |-> FALSE, name |-> "", attributes |-> <<>>, status |-> "UNSET",
           message |-> Undef, exceptions |-> <<>>, ended |-> 0]
NoFn == [kind |-> "", v |-> Undef]
NoOutcome == [kind |-> "", v |-> Undef]

MeterError == ErrorObject("meter failed")
LoggerError == ErrorObject("logger failed")

\* Metric names with "duration" or "latency" in them.
DurationNames == {"sqs.message.duration", "sqs.message.send_duration", "request.latency"}
MetricNames == {"sqs.message.processed", "sqs.message.duration", "request.latency"}

\* new ObservabilityHelper(options), with the OpenTelemetry API installed or
\* not: the meter exists when metrics are enabled and the API was loaded.
ObservabilityHelper(options, otel) ==
    [fn |-> "observability", otel |-> otel,
     logger |-> options.logger,
     logLevel |-> IF options.level = Undef THEN "info" ELSE options.level.s,
     tracingEnabled |-> IF options.tracing = Undef THEN FALSE ELSE options.tracing.b,
     metricsEnabled |-> IF options.metrics = Undef THEN FALSE ELSE options.metrics.b,
     meter |-> (options.metrics = JBool(TRUE) /\ otel),
     counters |-> {}, histograms |-> {},
     pc |-> "idle", op |-> "", f |-> NoFn, invoked |-> 0, span |-> NoSpan,
     backend |-> <<>>, outcome |-> NoOutcome]

ObservabilityInit ==
    /\ opts = [shutdownTimeoutMs |-> 0, s3Enabled |-> FALSE,
               shouldDeleteMessages |-> TRUE]
    /\ FreshServer
    /\ \E o \in ObservabilityOptionsSpace, otel \in BOOLEAN :
          call = ObservabilityHelper(o, otel)

\* (a variant that leaves the span open on the failure path)
spanFailedNotEnded(c, e, how) ==
    [c EXCEPT !.pc = "done", !.outcome = [kind |-> how, v |-> e],
              !.span = [@ EXCEPT !.status = "ERROR", !.message = ErrorMessage(e),
                                 !.exceptions = Append(@, e)]]

\* The failure path of the span: status ERROR with err.message, the
\* exception recorded, the span ended, the error thrown again.
spanFailed(c, e, how) ==
    [c EXCEPT !.pc = "done", !.outcome = [kind |-> how, v |-> e],
              !.span = [@ EXCEPT !.status = "ERROR", !.message = ErrorMessage(e),
                                 !.exceptions = Append(@, e), !.ended = @ + 1]]

\* The success path of the span: status OK, the span ended, the result
\* returned.
spanSucceeded(c, v, how) ==
    [c EXCEPT !.pc = "done", !.outcome = [kind |-> how, v |-> v],
              !.span = [@ EXCEPT !.status = "OK", !.ended = @ + 1]]

\* createSpan up to its return: fn has been called once; a promise that fn
\* returned is still pending.
createSpan(c, spanOptions, f) ==
    LET s == [c EXCEPT !.op = "createSpan", !.f = f, !.invoked = 1,
                       !.span = NoSpan, !.backend = <<>>, !.outcome = NoOutcome]
    IN  IF ~c.tracingEnabled \/ ~c.otel
        THEN CASE f.kind = "returns" ->
                     [s EXCEPT !.pc = "done", !.outcome = [kind |-> "returned", v |-> f.v]]
               [] f.kind = "throws" ->
                     [s EXCEPT !.pc = "done", !.outcome = [kind |-> "thrown", v |-> f.v]]
               [] OTHER -> [s EXCEPT !.pc = "pending"]
        ELSE LET t == [s EXCEPT !.span =
                          [NoSpan EXCEPT !.started = TRUE, !.name = spanOptions.name,
                                         !.attributes =
                                             IF spanOptions.attributes = Undef
                                             THEN <<>> ELSE spanOptions.attributes.e]]
             IN  CASE f.kind = "returns" -> spanSucceeded(t, f.v, "returned")
                   [] f.kind = "throws" -> spanFailed(t, f.v, "thrown")
                   [] OTHER -> [t EXCEPT !.pc = "pending"]

\* The promise fn returned settles: without a span it is the promise the
\* caller holds; with a span its then and catch callbacks run.
fnSettled(c) ==
    IF ~c.span.started
    THEN [c EXCEPT !.pc = "done",
                   !.outcome = [kind |-> IF c.f.kind = "resolves"
                                         THEN "resolved" ELSE "rejected",
                                v |-> c.f.v]]
    ELSE IF c.f.kind = "resolves" THEN spanSucceeded(c, c.f.v, "resolved")
         ELSE spanFailed(c, c.f.v, "rejected")

\* log(message, context): nothing without a logger, else the method of the
\* configured level.
log(c, message, fails) ==
    IF ~c.logger THEN [c EXCEPT !.pc = "done", !.outcome = [kind |-> "returned", v |-> Undef]]
    ELSE [c EXCEPT !.pc = "done",
                   !.backend = Append(@, [call |-> CASE c.logLevel = "debug" -> "logger.debug"
                                                     [] c.logLevel = "info" -> "logger.log"
                                                     [] c.logLevel = "warn" -> "logger.warn"
                                                     [] OTHER -> "logger.error",
                                          name |-> message]),
                   !.outcome = IF fails THEN [kind |-> "thrown", v |-> LoggerError]
                               ELSE [kind |-> "returned", v |-> Undef]]

\* recordMetric(name, value, attributes); fails says whether the call into
\* the meter or the logger throws.
recordMetric(c, name, fails) ==
    LET s == [c EXCEPT !.op = "recordMetric", !.f = NoFn, !.invoked = 0,
                       !.span = NoSpan, !.backend = <<>>, !.outcome = NoOutcome]
        returned == [kind |-> "returned", v |-> Undef]
        thrown == [kind |-> "thrown", v |-> MeterError]
    IN  IF ~c.metricsEnabled THEN [s EXCEPT !.pc = "done", !.outcome = returned]
        ELSE IF c.meter
        THEN IF name \in DurationNames
             THEN IF name \notin c.histograms /\ fails
                  THEN [s EXCEPT !.pc = "done", !.outcome = thrown,
                                 !.backend = <<[call |-> "createHistogram", name |-> name]>>]
                  ELSE [s EXCEPT !.pc = "done",
                                 !.histograms = @ \cup {name},
                                 !.backend =
                                    (IF name \in c.histograms THEN <<>>
                                     ELSE <<[call |-> "createHistogram", name |-> name]>>)
                                    \o <<[call |-> "histogram.record", name |-> name]>>,
                                 !.outcome = IF fails THEN thrown ELSE returned]
             ELSE IF name \notin c.counters /\ fails
                  THEN [s EXCEPT !.pc = "done", !.outcome = thrown,
                                 !.backend = <<[call |-> "createCounter", name |-> name]>>]
                  ELSE [s EXCEPT !.pc = "done",
                                 !.counters = @ \cup {name},
                                 !.backend =
                                    (IF name \in c.counters THEN <<>>
                                     ELSE <<[call |-> "createCounter", name |-> name]>>)
                                    \o <<[call |-> "counter.add", name |-> name]>>,
                                 !.outcome = IF fails THEN thrown ELSE returned]
        ELSE log(s, name, fails)

CreateSpan(spanOptions, f) ==
    /\ call.fn = "observability" /\ call.pc \in {"idle", "done"}
    /\ call' = createSpan(call, spanOptions, f)
    /\ UNCHANGED <<opts, consumer, consumers, callbacks, activeMessages, queue, runq,
                   inv, close, closeSnap>>

FnSettle ==
    /\ call.fn = "observability" /\ call.pc = "pending"
    /\ call' = fnSettled(call)
    /\ UNCHANGED <<opts, consumer, consumers, callbacks, activeMessages, queue, runq,
                   inv, close, closeSnap>>

RecordMetric(name, fails) ==
    /\ call.fn = "observability" /\ call.pc \in {"idle", "done"}
    /\ call' = recordMetric(call, name, fails)
    /\ UNCHANGED <<opts, consumer, consumers, callbacks, activeMessages, queue, runq,
                   inv, close, closeSnap>>

ObservabilityNext ==
    \/ \E a \in SpanAttributes, f \in FnBehaviours :
          CreateSpan([name |-> "sqs.handleMessage", attributes |-> a], f)
    \/ FnSettle
    \/ \E name \in MetricNames, fails \in BOOLEAN : RecordMetric(name, fails)

ObservabilitySpec == ObservabilityInit /\ [][ObservabilityNext]_vars

(***************************************************************************)
(* Round trip of a body: wrapIfLarge on the sending side, then             *)
(* unwrapIfPointer of what it returned on the receiving side, both with    *)
(* the same options and one store that keeps what was uploaded to it.      *)
(***************************************************************************)
NoObject == [Bucket |-> Undef, Key |-> Undef, Body |-> EmptyBody]

RoundTripInit ==
    /\ opts = [shutdownTimeoutMs |-> 0, s3Enabled |-> TRUE,
               shouldDeleteMessages |-> TRUE]
    /\ FreshServer
    /\ \E o \in HandlerOptionsSpace :
          call = [fn |-> "roundtrip", options |-> o, pc |-> "start", b |-> EmptyBody,
                  wrap |-> IdleOffload("wrap", o), unwrap |-> IdleOffload("unwrap", o),
                  uploaded |-> NoObject]

\* The sender calls wrapIfLarge(b).
RoundTripWrap(b, uuid) ==
    /\ call.fn = "roundtrip" /\ call.pc = "start"
    /\ LET w == wrapIfLarge(call.wrap, b, uuid)
       IN  call' = [call EXCEPT !.b = b, !.wrap = w,
                                !.pc = IF w.pc = "done" THEN "wrapped" ELSE "put"]
    /\ UNCHANGED <<opts, consumer, consumers, callbacks, activeMessages, queue, runq,
                   inv, close, closeSnap>>

\* The upload settles; an object that was accepted stays in the store.
RoundTripPut(o) ==
    /\ call.fn = "roundtrip" /\ call.pc = "put"
    /\ LET w == [wrapSettled(call.wrap, o) EXCEPT !.response = o]
           put == call.wrap.sent[1]
       IN  call' = [call EXCEPT !.wrap = w,
                                !.pc = IF o.ok THEN "wrapped" ELSE "failed",
                                !.uploaded = IF o.ok
                                             THEN [Bucket |-> JStr(put.Bucket),
                                                   Key |-> JStr(put.Key),
                                                   Body |-> put.Body]
                                             ELSE @]
    /\ UNCHANGED <<opts, consumer, consumers, callbacks, activeMessages, queue, runq,
                   inv, close, closeSnap>>

\* The receiver calls unwrapIfPointer on what wrapIfLarge returned.
RoundTripUnwrap ==
    /\ call.fn = "roundtrip" /\ call.pc = "wrapped"
    /\ LET u == unwrapIfPointer(call.unwrap, call.wrap.result)
       IN  call' = [call EXCEPT !.unwrap = u,
                                !.pc = IF u.pc = "done" THEN "done" ELSE "get"]
    /\ UNCHANGED <<opts, consumer, consumers, callbacks, activeMessages, queue, runq,
                   inv, close, closeSnap>>

\* The download settles: the store returns the object that was uploaded
\* under that bucket and key; for any other bucket and key it answers with
\* whatever it holds there.
RoundTripGet(o) ==
    /\ call.fn = "roundtrip" /\ call.pc = "get"
    /\ LET get == call.unwrap.sent[1]
       IN  IF get.Bucket = call.uploaded.Bucket /\ get.Key = call.uploaded.Key
           THEN o = [ok |-> TRUE, err |-> NoError, hasBody |-> TRUE,
                     text |-> call.uploaded.Body]
           ELSE o \in GetOutcomes
    /\ call' = [call EXCEPT !.unwrap = [unwrapSettled(call.unwrap, o) EXCEPT
                                           !.response = o],
                            !.pc = "done"]
    /\ UNCHANGED <<opts, consumer, consumers, callbacks, activeMessages, queue, runq,
                   inv, close, closeSnap>>

RoundTripNext ==
    \/ \E b \in OffloadMessages, uuid \in Uuids : RoundTripWrap(b, uuid)
    \/ \E o \in SendOutcomes : RoundTripPut(o)
    \/ RoundTripUnwrap
    \/ \E o \in GetOutcomes \cup
                { [ok |-> TRUE, err |-> NoError, hasBody |-> TRUE, text |-> t] :
                     t \in OffloadMessages } : RoundTripGet(o)

RoundTripSpec == RoundTripInit /\ [][RoundTripNext]_vars

(***************************************************************************)
(* Envelopes of the default serializer, read by the pointer parser.        *)
(***************************************************************************)
\* Patterns and data that look like pointers or carry pointers inside.
EnvelopePatterns == {"TEST", S3_POINTER_KEY, S3_POINTER_CLASS, "@class"}
EnvelopeData ==
    { Undef, JNull, JStr(S3_POINTER_KEY),
      JObj([bucket |-> JStr("some-bucket"), key |-> JStr("some-key")]),
      JObj([nested |-> JObj([deep |-> JObj([bucket |-> JStr("some-bucket"),
                                            key |-> JStr("some-key")])])]),
      JObj([n \in {S3_POINTER_KEY} |->
               JObj([bucket |-> JStr("b"), key |-> JStr("k")])]),
      JArr(<<JObj([n \in {S3_POINTER_KEY} |->
                      JObj([bucket |-> JStr("b"), key |-> JStr("k")])])>>),
      JObj([pattern |-> JStr("TEST"),
            data |-> JObj([n \in {S3_POINTER_KEY} |->
                              JObj([bucket |-> JStr("b"), key |-> JStr("k")])])]) }
    \cup ExtendedItems
    \cup { JArr(<<x>>) : x \in ExtendedItems }
EnvelopeIds == {Undef, JStr("u1"), JStr(S3_POINTER_CLASS)}

EnvelopeInit ==
    /\ opts = [shutdownTimeoutMs |-> 0, s3Enabled |-> TRUE,
               shouldDeleteMessages |-> TRUE]
    /\ FreshServer
    /\ call = [fn |-> "envelope", pc |-> "start",
               packet |-> [pattern |-> "", data |-> Undef, id |-> Undef],
               body |-> EmptyBody, format |-> "", pointer |-> NoPointer,
               isPointer |-> FALSE]

\* serializer.serialize(packet) with the default pattern key.
EncodeEnvelope(packet) ==
    /\ call.fn = "envelope" /\ call.pc = "start"
    /\ call' = [call EXCEPT !.pc = "encoded", !.packet = packet,
                            !.body = serialize(packet, DefaultPatternKey)]
    /\ UNCHANGED <<opts, consumer, consumers, callbacks, activeMessages, queue, runq,
                   inv, close, closeSnap>>

\* isS3Pointer(body) and parseS3Pointer(body) of a handler with the given
\* format and the default pointer key.
ReadEnvelope(format) ==
    /\ call.fn = "envelope" /\ call.pc = "encoded"
    /\ call' = [call EXCEPT !.pc = "read", !.format = format,
                            !.pointer = parseS3Pointer(call.body, format, S3_POINTER_KEY),
                            !.isPointer = isS3Pointer(call.body, format, S3_POINTER_KEY)]
    /\ UNCHANGED <<opts, consumer, consumers, callbacks, activeMessages, queue, runq,
                   inv, close, closeSnap>>

EnvelopeNext ==
    \/ \E p \in EnvelopePatterns, d \in EnvelopeData, id \in EnvelopeIds :
          EncodeEnvelope([pattern |-> p, data |-> d, id |-> id])
    \/ \E format \in PointerFormats : ReadEnvelope(format)

EnvelopeSpec == EnvelopeInit /\ [][EnvelopeNext]_vars

(***************************************************************************)
(* Properties of the consumer loop                                         *)
(***************************************************************************)
\* The body handleMessage decodes: the object behind the pointer when
\* offload is enabled and the body is a pointer, the body itself otherwise.
UnwrappedBody(m) ==
    LET pointer == parseS3Pointer(queue[m].wire.Body, "auto", S3_POINTER_KEY)
    IN  IF opts.s3Enabled /\ pointer.found THEN StoreObject(pointer.key)
        ELSE queue[m].wire.Body

DecodedOf(m) ==
    deserialize([MessageId |-> m, Body |-> UnwrappedBody(m),
                 MessageAttributes |-> queue[m].wire.MessageAttributes],
                DefaultPatternKey)

\* C1: the in-flight counter equals the number of handleMessage
\* invocations that have started and not completed (successfully or not);
\* hence it is never negative and is zero when nothing is being processed.
C1_InFlightCounter ==
    /\ activeMessages = Cardinality(InFlight)
    /\ activeMessages >= 0
    /\ (InFlight = {} => activeMessages = 0)

\* Two messages were in flight, one of them failed and the other is still
\* being handled.
C1_Witness ==
    \E m, n \in Msgs :
        /\ inv[m].pc = "done" /\ inv[m].outcome = "rejected"
        /\ inv[n].pc = "awaitHandler"
        /\ activeMessages = 1

\* C2: while a close() call is waiting for the in-flight counter to drain
\* no new message begins processing, so the counter only decreases (stated
\* for a server on which listen() was called once).
C2_NoIntakeWhileClosing ==
    [][(Listens = 1 /\ \E k \in Closes : close[k].pc = "waiting")
         => activeMessages' <= activeMessages]_vars

\* C3: a close() call logs the timeout warning only if a message that was
\* in flight when it was called has not completed by the time it stops
\* waiting, and then the warning carries the number of messages still in
\* flight (stated for a server on which listen() was called once).
C3_WarningOnlyForUnfinishedWork ==
    \A k \in Closes :
        (Listens = 1 /\ close[k].pc = "returned") =>
            /\ closeSnap[k] = {} => close[k].warn = Undefined
            /\ closeSnap[k] # {} => close[k].warn = Cardinality(closeSnap[k])

\* C4: every close() call that waits returns, with no consumer left
\* referenced by the server, whatever the handlers in flight do.
C4_CloseReturns ==
    \A k \in Closes :
        (close[k].pc = "waiting") ~> (close[k].pc = "returned" /\ consumer = Null)

\* A close() call returned after the timeout with a message still in
\* flight, and that message is still being handled.
C4_Witness ==
    \E k \in Closes :
        /\ close[k].pc = "returned"
        /\ close[k].warn # Undefined
        /\ ShutdownTimeout > 0
        /\ closeSnap[k] \cap InFlight # {}

\* C5: close() never raises; without an active consumer it stops nothing;
\* with one it stops exactly that consumer, once, and forgets it, so that
\* no consumer is ever stopped twice.
C5_CloseIdempotent ==
    /\ [](\A k \in Closes : ~close[k].err)
    /\ [](\A c \in Consumers : consumers[c].stops <= 1)
    /\ [][\A k \in Closes :
            (close[k].pc # "returned" /\ close'[k].pc = "returned") =>
                /\ consumer' = Null
                /\ IF consumer = Null
                   THEN consumers' = consumers
                   ELSE /\ consumers'[consumer].stops = 1
                        /\ consumers'[consumer].state = "stopped"
                        /\ \A c \in Consumers \ {consumer} :
                              consumers'[c] = consumers[c]]_vars

\* listen() was called once and close() twice: the consumer was stopped once.
C5_Witness ==
    /\ Listens = 1
    /\ \A k \in 1 .. 2 : close[k].pc \in {"returned", "settled"}
    /\ consumers[1].stops = 1

\* C6: at most one consumer of the server is polling, it is the one the
\* server refers to, and none is polling when the server is stopped.
C6_OneConsumer ==
    /\ Cardinality(Polling) <= 1
    /\ \A c \in Polling : consumer = c

C8_NoHandlerResolves ==
    \A m \in Msgs :
        (/\ inv[m].pc = "done"
         /\ inv[m].pattern # Undef
         /\ getHandlerByPattern(inv[m].pattern) = "none") =>
            /\ inv[m].outcome = "resolved"
            /\ inv[m].err = "" /\ inv[m].logged = ""
            /\ inv[m].calls = 0
            /\ inv[m].warned = [text |-> NO_EVENT_HANDLER, pattern |-> inv[m].pattern]
            /\ (queue[m].state # "inflight" /\ opts.shouldDeleteMessages) =>
                  queue[m].state = "deleted" /\ m \notin Receivable

\* A message without a handler was processed and deleted.
C8_Witness ==
    \E m \in Msgs :
        /\ inv[m].pc = "done"
        /\ inv[m].pattern = JStr("nohandler")
        /\ queue[m].state = "deleted"

\* C9: when an event handler returned a finite stream, processing ends in
\* success once the stream has completed, whenever the stream emitted its
\* values; and the message is not acknowledged before that.
C9_EventStreamSucceeds ==
    \A m \in Msgs :
        /\ (inv[m].pc = "done" /\ inv[m].handler = "event"
              /\ inv[m].result.k = "stream") => inv[m].outcome = "resolved"
        /\ inv[m].pc \in {"awaitHandler", "awaitStream"} =>
              queue[m].state = "inflight"

\* C10: a request-style handler is called once, with the decoded data and
\* the context of its own message; the message is not acknowledged while
\* the result is pending; a result that completed with a value resolves;
\* and no processing ever sends anything to the queue.
C10_RequestNeverReplies ==
    \A m \in Msgs :
        /\ inv[m].sent = 0
        /\ inv[m].handler = "request" =>
              /\ inv[m].calls = 1
              /\ inv[m].args = [data |-> DecodedOf(m).data,
                                context |-> SqsContext(m, UnwrappedBody(m),
                                                       DecodedOf(m).pattern)]
              /\ inv[m].pc \in {"awaitHandler", "awaitStream"} =>
                    queue[m].state = "inflight"
              /\ (inv[m].pc = "done" /\ inv[m].result.k = "value") =>
                    inv[m].outcome = "resolved"
              /\ (inv[m].pc = "done" /\ inv[m].result.k = "stream") =>
                    (inv[m].outcome = "resolved"
                        <=> inv[m].result.syncVals + inv[m].result.laterVals > 0)

\* A request-style handler returned a stream, the stream completed and the
\* processing resolved.
C10_Witness ==
    \E m \in Msgs :
        /\ inv[m].handler = "request"
        /\ inv[m].pc = "done"
        /\ inv[m].result.k = "stream"
        /\ inv[m].outcome = "resolved"

(***************************************************************************)
(* Properties of construction and of listen                                *)
(***************************************************************************)
\* C11: the constructor fails, before anything is polled or handled, with
\* the error of the queue client when that is missing, of the queue URL
\* when that is missing, of the store client or of the bucket when offload
\* is enabled without it (the first of these that applies); it fails in no
\* other case, so a missing store client or bucket is no error when offload
\* is not enabled.
C11_EagerValidation ==
    call.fn = "constructor" =>
        LET o == call.options
            noUrl == ~o.consumerOptions.present \/ o.consumerOptions.queueUrl = ""
            offload == o.s3LargeMessage.present /\ o.s3LargeMessage.enabled
        IN  /\ call.pc = "new" => Listens = 0
            /\ call.pc = "done" =>
                /\ ~o.sqs => call.err = "SQSClient is required in SqsServerOptions"
                /\ (o.sqs /\ noUrl) =>
                      call.err = "queueUrl is required in consumerOptions"
                /\ (o.sqs /\ ~noUrl /\ offload /\ ~o.s3LargeMessage.s3Client) =>
                      call.err = "s3Client is required when s3LargeMessage is enabled"
                /\ (o.sqs /\ ~noUrl /\ offload /\ o.s3LargeMessage.s3Client
                        /\ o.s3LargeMessage.bucket = "") =>
                      call.err = "bucket is required when s3LargeMessage is enabled"
                /\ (o.sqs /\ ~noUrl /\ ~offload) => call.err = ""
                /\ call.err # "" =>
                      /\ Listens = 0 /\ Polling = {} /\ activeMessages = 0
                      /\ \A m \in Msgs : queue[m].receives = 0 /\ inv[m].pc = "idle"

\* Construction failed for offload enabled with a store client and without
\* a bucket.
C11_Witness ==
    /\ call.fn = "constructor" /\ call.pc = "done"
    /\ call.err = "bucket is required when s3LargeMessage is enabled"
    /\ call.options.s3LargeMessage.s3Client
    /\ Listens = 0

\* C12: every listen() has created a consumer with handlers for error,
\* processing_error, started and stopped, has started it, and has invoked
\* its callback once, when the consumer was already polling.
C12_ListenReady ==
    /\ callbacks = Listens
    /\ \A c \in Consumers :
          consumers[c].state # "none" =>
              /\ consumers[c].handlers =
                     {"error", "processing_error", "started", "stopped"}
              /\ consumers[c].ready = "polling"
              /\ consumers[c].state \in {"polling", "stopped"}

\* listen() was called once and its consumer has delivered a message.
C12_Witness ==
    /\ Listens = 1 /\ callbacks = 1 /\ consumers[1].ready = "polling"
    /\ \E m \in Msgs : inv[m].pc = "done"

(***************************************************************************)
(* Properties of the envelope codec                                        *)
(***************************************************************************)
\* C13: with the default pattern key on both sides, deserializing what the
\* serializer produced for a packet gives the packet's pattern and the
\* packet's data, for every JSON data value, null included.
C13_EnvelopeRoundTrip ==
    (/\ call.fn = "codec" /\ call.pc = "decoded" /\ call.origin = "client"
     /\ call.serKey = DefaultPatternKey /\ call.deKey = DefaultPatternKey) =>
        /\ call.decoded.ok
        /\ call.decoded.pattern = JStr(call.packet.pattern)
        /\ call.decoded.data = call.packet.data

\* C14: when the parsed body has the configured pattern-key field, the
\* pattern is the value of that field; the data is the parsed object's data
\* field under the default pattern key and the whole parsed object under
\* any other key.
C14_PatternKeyField ==
    (/\ call.fn = "codec" /\ call.pc = "decoded"
     /\ JsonParse(call.message.Body).ok
     /\ Prop(JsonParse(call.message.Body).v, call.deKey) # Undef) =>
        LET parsed == JsonParse(call.message.Body).v
        IN  /\ call.decoded.ok
            /\ call.decoded.pattern = Prop(parsed, call.deKey)
            /\ call.deKey = DefaultPatternKey =>
                  call.decoded.data = Prop(parsed, "data")
            /\ call.deKey # DefaultPatternKey => call.decoded.data = parsed

\* The pattern attribute of the message in hand when it has a value, the
\* sentinel otherwise.
AttributeOrUnknown ==
    IF /\ MESSAGE_PATTERN_HEADER \in DOMAIN call.message.MessageAttributes
       /\ call.message.MessageAttributes[MESSAGE_PATTERN_HEADER] # ""
    THEN JStr(call.message.MessageAttributes[MESSAGE_PATTERN_HEADER])
    ELSE JStr("unknown")

\* C15: for every body that is not empty, JSON of any kind or other text,
\* deserialize returns an envelope, and its pattern is the pattern-key
\* field of the parsed body, else the pattern attribute, else "unknown".
C15_PatternAlwaysPresent ==
    (/\ call.fn = "codec" /\ call.pc = "decoded"
     /\ call.message.Body.k # "empty") =>
        LET p == JsonParse(call.message.Body)
            field == IF p.ok THEN Prop(p.v, call.deKey) ELSE Undef
        IN  /\ call.decoded.ok
            /\ call.decoded.pattern # Undef
            /\ call.decoded.pattern =
                   (IF field # Undef THEN field ELSE AttributeOrUnknown)

\* C17: a body that is not JSON is the data as it is; a body that parses
\* and has no pattern-key field is the data as parsed; in both cases the
\* pattern is the pattern attribute, or "unknown" without one.
C17_DecodeFallback ==
    (/\ call.fn = "codec" /\ call.pc = "decoded"
     /\ call.message.Body.k # "empty") =>
        LET p == JsonParse(call.message.Body)
        IN  /\ ~p.ok =>
                  /\ call.decoded.ok
                  /\ call.decoded.data = JStr(call.message.Body.s)
                  /\ call.decoded.pattern = AttributeOrUnknown
            /\ (p.ok /\ Prop(p.v, call.deKey) = Undef) =>
                  /\ call.decoded.ok
                  /\ call.decoded.data = p.v
                  /\ call.decoded.pattern = AttributeOrUnknown

\* C16: a message with an empty body is not decoded into any envelope: the
\* decoder fails with the empty-body error, handleMessage rejects with it
\* without calling a handler, and the message stays on the queue.
C16_EmptyBodyRejected ==
    \A m \in Msgs :
        (inv[m].pc = "done" /\ queue[m].wire.Body = EmptyBody) =>
            /\ ~DecodedOf(m).ok
            /\ DecodedOf(m).err = "Message body is empty"
            /\ DecodedOf(m).pattern = Undef /\ DecodedOf(m).data = Undef
            /\ inv[m].outcome = "rejected"
            /\ inv[m].err = "Message body is empty"
            /\ inv[m].calls = 0
            /\ queue[m].state \in {"inflight", "visible"}

\* A message with an empty body was rejected, delivered again and rejected
\* again.
C16_Witness ==
    \E m \in Msgs :
        /\ queue[m].wire.Body = EmptyBody /\ queue[m].receives = 2
        /\ inv[m].pc = "done" /\ inv[m].outcome = "rejected"
        /\ queue[m].state = "visible"

(***************************************************************************)
(* Properties of the offload pointer                                       *)
(***************************************************************************)
\* C18: under every format, the body written by createPointerMessage for a
\* bucket and a key is recognised as a pointer and parses to exactly that
\* bucket and that key.
C18_PointerRoundTrip ==
    (call.fn = "pointer" /\ call.pc = "parsed" /\ call.origin = "created") =>
        /\ call.isPointer
        /\ call.parsed.found
        /\ call.parsed.bucket = JStr(call.bucket)
        /\ call.parsed.key = JStr(call.key)

\* A pointer was written and read back in the extended format.
C18_Witness ==
    /\ call.fn = "pointer" /\ call.pc = "parsed" /\ call.origin = "created"
    /\ call.pointerFormat = "aws-extended"
    /\ call.parsed.key = JStr("sqs-messages/1")

\* The shapes of a pointer: the simple shape under a pointer key, and the
\* extended shape (the item alone or in an array of one).
SimpleShape(v, pointerKey) ==
    /\ v.t = "obj"
    /\ Prop(v, pointerKey).t = "obj"
    /\ Prop(Prop(v, pointerKey), "bucket").t = "str"
    /\ Prop(Prop(v, pointerKey), "key").t = "str"

ExtendedItemShape(x) ==
    /\ x.t = "obj"
    /\ Prop(x, "@class") = JStr(S3_POINTER_CLASS)
    /\ Prop(x, "s3BucketName").t = "str"
    /\ Prop(x, "s3Key").t = "str"

ExtendedShape(v) ==
    \/ ExtendedItemShape(v)
    \/ v.t = "arr" /\ Len(v.e) = 1 /\ ExtendedItemShape(v.e[1])

\* C19: parsing a body never throws, and a body that has neither shape
\* (bucket or key missing or not a string, an array of another length than
\* one, another class tag) is not a pointer.
C19_MalformedNeverPointer ==
    (call.fn = "pointer" /\ call.pc = "parsed") =>
        LET p == JsonParse(call.body)
        IN  /\ ~call.parsed.threw
            /\ (p.ok /\ ~SimpleShape(p.v, call.pointerKey) /\ ~ExtendedShape(p.v)) =>
                  ~call.isPointer /\ ~call.parsed.found
            /\ ~p.ok => ~call.isPointer /\ ~call.parsed.found

\* C20: a body is a pointer exactly when it parses as JSON and has a shape
\* the format admits: the simple shape under the configured pointer key for
\* 'simple', the extended shape for 'aws-extended', either for 'auto'.
C20_PointerIffShape ==
    (call.fn = "pointer" /\ call.pc = "parsed") =>
        LET p == JsonParse(call.body)
        IN  call.isPointer <=>
              /\ p.ok
              /\ \/ /\ call.pointerFormat \in {"simple", "auto"}
                    /\ SimpleShape(p.v, call.pointerKey)
                 \/ /\ call.pointerFormat \in {"aws-extended", "auto"}
                    /\ ExtendedShape(p.v)

(***************************************************************************)
(* Properties of the offload handler                                       *)
(***************************************************************************)
Uploads(c) == SelectSeq(c.sent, LAMBDA x : x.cmd = "PutObject")
Downloads(c) == SelectSeq(c.sent, LAMBDA x : x.cmd = "GetObject")

\* C21: wrapIfLarge offloads iff the UTF-8 byte length of the message is
\* strictly greater than the threshold.  Up to and at the threshold it
\* returns the message unchanged and sends nothing to the store; above it,
\* it sends exactly one upload, of the message verbatim, and what it returns
\* is a pointer.
C21_WrapThreshold ==
    (call.fn = "offload" /\ call.op = "wrapIfLarge") =>
        IF ByteLength(call.message) <= HandlerThreshold(call.options)
        THEN /\ call.pc = "done" /\ call.returned /\ call.err = NoError
             /\ call.result = call.message
             /\ call.sent = <<>>
        ELSE /\ Len(call.sent) = 1
             /\ call.sent[1].cmd = "PutObject"
             /\ call.sent[1].Body = call.message
             /\ call.sent[1].Bucket = call.options.bucket
             /\ (call.pc = "done" /\ call.returned) =>
                    isS3Pointer(call.result, HandlerPointerFormat(call.options),
                                HandlerPointerKey(call.options))

\* A message of three characters and four bytes was offloaded at threshold 3.
C21_Witness ==
    /\ call.fn = "offload" /\ call.op = "wrapIfLarge" /\ call.pc = "done"
    /\ call.returned
    /\ HandlerThreshold(call.options) = 3
    /\ call.message.k = "chars"
    /\ Utf16Length(call.message.c) = 3 /\ Utf8Length(call.message.c) = 4
    /\ Len(Uploads(call)) = 1
    /\ isS3Pointer(call.result, HandlerPointerFormat(call.options),
                   HandlerPointerKey(call.options))

\* A body that is a pointer for a handler: JSON of a shape its format admits.
AdmittedShape(body, pointerFormat, pointerKey) ==
    LET p == JsonParse(body)
    IN  /\ p.ok
        /\ \/ pointerFormat \in {"simple", "auto"} /\ SimpleShape(p.v, pointerKey)
           \/ pointerFormat \in {"aws-extended", "auto"} /\ ExtendedShape(p.v)

\* The bucket and key such a body names.
ShapeTarget(body, pointerFormat, pointerKey) ==
    LET v == body.v
        item == IF v.t = "arr" THEN v.e[1] ELSE v
    IN  IF pointerFormat \in {"aws-extended", "auto"} /\ ExtendedShape(v)
        THEN [Bucket |-> Prop(item, "s3BucketName"), Key |-> Prop(item, "s3Key")]
        ELSE [Bucket |-> Prop(Prop(v, pointerKey), "bucket"),
              Key |-> Prop(Prop(v, pointerKey), "key")]

\* C22: unwrapIfPointer returns a body that is not a pointer (text that is
\* not JSON included) unchanged and sends nothing to the store; for a
\* pointer it sends exactly one download, of the object at the pointer's
\* bucket and key, and what it returns is the downloaded content.
C22_UnwrapIfPointer ==
    (call.fn = "offload" /\ call.op = "unwrapIfPointer") =>
        LET format == HandlerPointerFormat(call.options)
            pointerKey == HandlerPointerKey(call.options)
        IN  IF ~AdmittedShape(call.message, format, pointerKey)
            THEN /\ call.pc = "done" /\ call.returned /\ call.err = NoError
                 /\ call.result = call.message
                 /\ call.sent = <<>>
            ELSE /\ Len(call.sent) = 1
                 /\ call.sent[1].cmd = "GetObject"
                 /\ call.sent[1].Bucket = ShapeTarget(call.message, format, pointerKey).Bucket
                 /\ call.sent[1].Key = ShapeTarget(call.message, format, pointerKey).Key
                 /\ (call.pc = "done" /\ call.returned) =>
                        call.response.ok /\ call.result = call.response.text

\* C23: the handler sends each command once and never hides a failure.  An
\* error the store rejects with, on upload, download or delete, is thrown as
\* it is; a download that resolves without a body or with an empty text
\* fails with the read error that names the key of the object asked for.
C23_StoreErrorsSurface ==
    call.fn = "offload" =>
        /\ Len(call.sent) <= 1
        /\ (call.pc = "done" /\ call.sent # <<>> /\ ~call.response.ok) =>
              /\ ~call.returned
              /\ call.err \in StoreErrors
              /\ call.err = call.response.err
        /\ (call.pc = "done" /\ call.op = "unwrapIfPointer" /\ call.sent # <<>>
               /\ call.response.ok
               /\ (~call.response.hasBody \/ call.response.text = EmptyBody)) =>
              /\ ~call.returned
              /\ call.err = [e |-> "Failed to read S3 object",
                             key |-> call.sent[1].Key]
        /\ (call.pc = "done" /\ call.err = NoError) => call.returned

\* The object of a well-formed pointer was downloaded and its text was empty.
C23_Witness ==
    /\ call.fn = "offload" /\ call.op = "unwrapIfPointer" /\ call.pc = "done"
    /\ call.sent = <<GetObjectCommand(JStr("bkt"), JStr("sqs-messages/u1"))>>
    /\ call.response.ok /\ call.response.hasBody /\ call.response.text = EmptyBody
    /\ call.err = [e |-> "Failed to read S3 object", key |-> JStr("sqs-messages/u1")]

(***************************************************************************)
(* Properties of the client                                                *)
(***************************************************************************)
\* The messages handed to producer.send so far, in order.
RECURSIVE Flatten(_)
Flatten(batches) ==
    IF batches = <<>> THEN <<>> ELSE Head(batches) \o Flatten(Tail(batches))

SubmittedMessages == Flatten(call.submitted)

\* C24: every message the client submits carries the pattern attribute and
\* an identifier that is also the id field of the encoded body.  A
\* request-style send attaches the correlation-id attribute, whose value is
\* that identifier; a fire-and-forget send attaches none and its identifier
\* is a generated UUID.
C24_SendAttributes ==
    call.fn = "client" =>
        \A i \in 1 .. Len(SubmittedMessages) :
            LET message == SubmittedMessages[i]
                attributes == message.messageAttributes
            IN  /\ MESSAGE_PATTERN_HEADER \in DOMAIN attributes
                /\ attributes[MESSAGE_PATTERN_HEADER] =
                       [DataType |-> "String", StringValue |-> JStr(call.packet.pattern)]
                /\ message.id.t = "str"
                /\ call.serialized.k = "json"
                /\ Prop(call.serialized.v, "id") = message.id
                /\ call.kind = "publish" =>
                       /\ CORRELATION_ID_HEADER \in DOMAIN attributes
                       /\ attributes[CORRELATION_ID_HEADER] =
                              [DataType |-> "String", StringValue |-> message.id]
                       /\ message.id = call.correlationId
                /\ call.kind = "dispatchEvent" =>
                       /\ CORRELATION_ID_HEADER \notin DOMAIN attributes
                       /\ call.correlationId = Undef
                       /\ message.id \in { JStr(u) : u \in Uuids }

\* A fire-and-forget send was submitted and accepted.
C24_Witness ==
    /\ call.fn = "client" /\ call.kind = "dispatchEvent" /\ call.pc = "done"
    /\ call.settled = "resolved"
    /\ Len(SubmittedMessages) = 1
    /\ SubmittedMessages[1].id = JStr("u1")
    /\ DOMAIN SubmittedMessages[1].messageAttributes = {MESSAGE_PATTERN_HEADER}

\* C25: a submitted message has a group id exactly when the ordered-queue
\* mode is enabled; it is the configured static value, or the result of the
\* configured function for the pattern and the data, or, when neither is
\* configured, the pattern.
C25_GroupKey ==
    call.fn = "client" =>
        \A i \in 1 .. Len(SubmittedMessages) :
            LET message == SubmittedMessages[i]
                fifo == call.options.fifo
            IN  IF fifo = Undef \/ ~fifo.enabled THEN message.groupId = Undef
                ELSE /\ message.groupId # Undef
                     /\ fifo.messageGroupId.t = "str" =>
                            message.groupId = fifo.messageGroupId
                     /\ fifo.messageGroupId.t = "function" =>
                            message.groupId =
                               [t |-> "applied", name |-> fifo.messageGroupId.name,
                                pattern |-> call.packet.pattern,
                                data |-> call.packet.data]
                     /\ fifo.messageGroupId = Undef =>
                            message.groupId = JStr(call.packet.pattern)

\* A message was submitted with the group id a configured function gave.
C25_Witness ==
    /\ call.fn = "client" /\ call.pc = "done" /\ call.settled = "resolved"
    /\ Len(SubmittedMessages) = 1
    /\ SubmittedMessages[1].groupId =
           [t |-> "applied", name |-> "groupOf", pattern |-> "ORDER_CREATED",
            data |-> JObj([orderId |-> JStr("123")])]

\* The deduplication id of the message submitted by the current send is a
\* content hash.
HashedNow ==
    /\ SubmittedMessages # <<>>
    /\ SubmittedMessages[1].deduplicationId # Undef
    /\ SubmittedMessages[1].deduplicationId.t = "sha256"

\* C26: in ordered-queue mode a submitted message has a deduplication id
\* exactly when contentBasedDeduplication is not true; it is the result of
\* the configured function for the pattern and the data, or else the content
\* hash of {pattern, data}.  So the hashes of two sends are equal exactly
\* when their patterns and their data are equal.
C26_DeduplicationKey ==
    call.fn = "client" =>
        /\ \A i \in 1 .. Len(SubmittedMessages) :
              LET message == SubmittedMessages[i]
                  fifo == call.options.fifo
              IN  (fifo # Undef /\ fifo.enabled) =>
                    /\ message.deduplicationId # Undef
                           <=> fifo.contentBasedDeduplication # JBool(TRUE)
                    /\ (message.deduplicationId # Undef
                           /\ fifo.deduplicationId # Undef) =>
                          message.deduplicationId =
                             [t |-> "applied", name |-> fifo.deduplicationId.name,
                              pattern |-> call.packet.pattern,
                              data |-> call.packet.data]
                    /\ (message.deduplicationId # Undef
                           /\ fifo.deduplicationId = Undef) =>
                          message.deduplicationId =
                             [t |-> "sha256",
                              of |-> JsonBody(Jsonify(JObj(
                                        [pattern |-> JStr(call.packet.pattern),
                                         data |-> call.packet.data])))]
        /\ (HashedNow /\ call.previous.sent) =>
              (SubmittedMessages[1].deduplicationId = call.previous.deduplicationId
                 <=> call.packet = call.previous.packet)

\* Two sends of the same pattern and data carried the same content hash.
C26_Witness ==
    /\ call.fn = "client" /\ call.pc = "done"
    /\ HashedNow /\ call.previous.sent
    /\ call.packet = call.previous.packet
    /\ call.packet.data = JObj([orderId |-> JStr("123")])
    /\ SubmittedMessages[1].deduplicationId = call.previous.deduplicationId

\* The error that made the current send fail: of the encoding, of the
\* upload, or of the submission.
UploadFailed ==
    /\ call.handler # NoHandler /\ call.handler.sent # <<>>
    /\ call.handler.pc = "done" /\ ~call.handler.response.ok
ErrorRaised ==
    IF JsonStringifyThrows(call.packet.data)
    THEN [e |-> "TypeError", message |-> "Converting circular structure to JSON"]
    ELSE IF UploadFailed THEN call.handler.response.err
    ELSE call.queueResponse.err

C28_OffloadBeforeSubmit ==
    (call.fn = "client" /\ call.handler # NoHandler /\ call.serialized # EmptyBody) =>
        LET offload == call.options.s3LargeMessage
        IN  IF ByteLength(call.serialized) > HandlerThreshold(offload)
            THEN /\ Len(call.handler.sent) = 1
                 /\ call.handler.sent[1].cmd = "PutObject"
                 /\ call.handler.sent[1].Body = call.serialized
                 /\ call.trace \in {<<"s3.send">>, <<"s3.send", "producer.send">>}
                 /\ \A i \in 1 .. Len(SubmittedMessages) :
                       /\ SubmittedMessages[i].body = call.handler.result
                       /\ SubmittedMessages[i].body # call.serialized
                       /\ isS3Pointer(SubmittedMessages[i].body,
                                      HandlerPointerFormat(offload),
                                      HandlerPointerKey(offload))
            ELSE /\ call.handler.sent = <<>>
                 /\ call.trace = <<"producer.send">>
                 /\ Len(SubmittedMessages) = 1
                 /\ SubmittedMessages[1].body = call.serialized

\* An encoded body of 62 bytes was offloaded at threshold 61 and its
\* pointer was accepted by the queue.
C28_Witness ==
    /\ call.fn = "client" /\ call.handler # NoHandler /\ call.pc = "done"
    /\ call.settled = "resolved"
    /\ HandlerThreshold(call.options.s3LargeMessage) = 61
    /\ ByteLength(call.serialized) = 62
    /\ call.trace = <<"s3.send", "producer.send">>
    /\ Len(SubmittedMessages) = 1
    /\ SubmittedMessages[1].body =
           createPointerMessage("bkt", "sqs-messages/u2", "auto", S3_POINTER_KEY)

\* C30: the client constructor validates its options as the server's does.
\* It throws a specific error when the queue client is missing, when the
\* queue URL is missing, and, with offload enabled, when the store client
\* or the bucket is missing; it throws nothing else, and with offload
\* disabled a missing store client or bucket is no error.
C30_ClientValidation ==
    (call.fn = "ClientSqs" /\ call.pc = "done") =>
        LET o == call.options
            offload == o.s3LargeMessage.present /\ o.s3LargeMessage.enabled
            expected ==
                (IF ~o.sqs THEN {"SQSClient is required in SqsClientOptions"} ELSE {})
                \cup (IF o.queueUrl = ""
                      THEN {"queueUrl is required in SqsClientOptions"} ELSE {})
                \cup (IF offload /\ ~o.s3LargeMessage.s3Client
                      THEN {"s3Client is required when s3LargeMessage is enabled"}
                      ELSE {})
                \cup (IF offload /\ o.s3LargeMessage.bucket = ""
                      THEN {"bucket is required when s3LargeMessage is enabled"}
                      ELSE {})
        IN  IF expected = {} THEN call.err = "" ELSE call.err \in expected

\* C29: emitBatch cuts the list into consecutive chunks of at most ten
\* messages and submits each chunk in one batch call, so that n messages
\* take ceil(n / 10) calls (ten and five for fifteen, one for ten, none for
\* an empty list); it returns one result for each input message, in the
\* order of the input.
C29_EmitBatchChunks ==
    call.fn = "emitBatch" =>
        LET n == Len(call.input)
            sent == Flatten(call.submitted)
        IN  /\ \A k \in 1 .. Len(call.submitted) :
                  /\ Len(call.submitted[k]) \in 1 .. 10
                  /\ k < Len(call.submitted) => Len(call.submitted[k]) = 10
            /\ Len(sent) <= n
            /\ \A i \in 1 .. Len(sent) :
                  /\ sent[i].id = JStr("u" \o ToString(i))
                  /\ sent[i].messageAttributes[MESSAGE_PATTERN_HEADER].StringValue =
                         JStr(call.input[i].pattern)
                  /\ Prop(sent[i].body.v, "data") = call.input[i].data
            /\ (call.pc = "done" /\ call.settled = "resolved") =>
                  /\ Len(call.submitted) = (n + 9) \div 10
                  /\ Len(sent) = n
                  /\ Len(call.results) = n
                  /\ \A i \in 1 .. n : call.results[i].Id = sent[i].id
            /\ (call.pc = "done" /\ n = 0) =>
                  call.submitted = <<>> /\ call.results = <<>>
                     /\ call.settled = "resolved"

\* Fifteen messages were submitted in a call of ten and a call of five.
C29_Witness ==
    /\ call.fn = "emitBatch" /\ call.pc = "done" /\ call.settled = "resolved"
    /\ Len(call.input) = 15
    /\ Len(call.submitted) = 2
    /\ Len(call.submitted[1]) = 10 /\ Len(call.submitted[2]) = 5
    /\ Len(call.results) = 15

\* C31: a client constructed with patternKey = K encodes every envelope it
\* sends with the pattern under the field K and without a "pattern" field.
C31_ClientPatternKey ==
    (/\ call.fn = "client" /\ "patternKey" \in DOMAIN call.options
     /\ call.options.patternKey # Undef /\ call.serialized # EmptyBody) =>
        LET K == call.options.patternKey.s
            envelope == JsonParse(call.serialized).v
        IN  /\ Prop(envelope, K) = JStr(call.packet.pattern)
            /\ K # "pattern" => Prop(envelope, "pattern") = Undef

\* What calling fn directly gives: its value or its error, at once or once
\* its promise has settled.
DirectOutcome(f) ==
    [kind |-> CASE f.kind = "returns" -> "returned" [] f.kind = "throws" -> "thrown"
                [] f.kind = "resolves" -> "resolved" [] OTHER -> "rejected",
     v |-> f.v]

C33_RecordMetricNeverThrows ==
    (call.fn = "observability" /\ call.op = "recordMetric" /\ call.pc = "done") =>
        /\ call.outcome.kind = "returned"
        /\ ~call.metricsEnabled => call.backend = <<>>
        /\ (call.metricsEnabled /\ call.meter) =>
              /\ call.backend # <<>>
              /\ \A i \in 1 .. Len(call.backend) :
                    call.backend[i].call \in {"createHistogram", "histogram.record",
                                              "createCounter", "counter.add"}
        /\ (call.metricsEnabled /\ ~call.meter) =>
              \A i \in 1 .. Len(call.backend) :
                  call.backend[i].call \in {"logger.debug", "logger.log",
                                            "logger.warn", "logger.error"}

\* What the handler of message m was given, when it was called.
HandlerGotOwnMessage(m) ==
    inv[m].calls > 0 =>
        /\ inv[m].calls = 1
        /\ inv[m].body = UnwrappedBody(m)
        /\ inv[m].args.data = DecodedOf(m).data
        /\ inv[m].args.context.pattern = DecodedOf(m).pattern
        /\ inv[m].handler = getHandlerByPattern(DecodedOf(m).pattern)
        /\ inv[m].args.context.message.Body = UnwrappedBody(m)
        /\ inv[m].args.context.message =
              [ReceivedMessage(m) EXCEPT !.Body = UnwrappedBody(m)]

\* C34: a received message is unwrapped, then decoded, then its handler is
\* looked up and invoked: while the unwrap is awaited no handler has been
\* called, the handler called is the one registered for the pattern decoded
\* from the unwrapped body, its data is the data decoded from the unwrapped
\* body, and the message of its context is the received message with only
\* the body replaced by the unwrapped body; no step changes the received
\* message itself.
C34_ProcessingOrder ==
    /\ [](\A m \in Msgs :
             /\ HandlerGotOwnMessage(m)
             /\ inv[m].pc = "awaitUnwrap" => inv[m].calls = 0)
    /\ [][\A m \in Msgs :
             queue[m].state # "absent" => ReceivedMessage(m)' = ReceivedMessage(m)]_vars

\* The handler of an offloaded message was called with the data of the
\* stored envelope and a context whose body is that envelope, while the
\* received message still holds the pointer.
C34_Witness ==
    \E m \in Msgs :
        /\ opts.s3Enabled
        /\ queue[m].wire.Body = SimplePointerBody("bkt", "k1")
        /\ inv[m].calls = 1
        /\ inv[m].args.data = JStr("big")
        /\ inv[m].args.context.message.Body = Envelope("evt", "big")
        /\ inv[m].args.context.message.MessageAttributes = PatternAttribute("evt")
        /\ ReceivedMessage(m).Body = SimplePointerBody("bkt", "k1")

C36_ConsumerOnlyReads ==
    \A m \in Msgs :
        LET pointer == parseS3Pointer(queue[m].wire.Body, "auto", S3_POINTER_KEY)
        IN  /\ \A i \in 1 .. Len(inv[m].store) : inv[m].store[i].cmd = "GetObject"
            /\ (inv[m].pc # "idle" /\ opts.s3Enabled /\ pointer.found) =>
                  inv[m].store = <<[cmd |-> "GetObject", Bucket |-> pointer.bucket,
                                    Key |-> pointer.key]>>
            /\ (inv[m].pc = "idle" \/ ~opts.s3Enabled \/ ~pointer.found) =>
                  inv[m].store = <<>>
            /\ (opts.s3Enabled /\ pointer.found /\ inv[m].calls > 0) =>
                  inv[m].body = StoreObject(pointer.key)

\* A pointer message was processed, stayed on the queue, was delivered a
\* second time and was unwrapped to the stored envelope again.
C36_Witness ==
    \E m \in Msgs :
        /\ opts.s3Enabled
        /\ queue[m].wire.Body = SimplePointerBody("bkt", "k1")
        /\ queue[m].receives = 2
        /\ inv[m].pc = "done" /\ inv[m].outcome = "resolved"
        /\ inv[m].store = <<[cmd |-> "GetObject", Bucket |-> JStr("bkt"),
                             Key |-> JStr("k1")]>>
        /\ inv[m].args.data = JStr("big")

C38_EnvelopeNeverPointer ==
    (call.fn = "envelope" /\ call.pc = "read") =>
        /\ ~call.isPointer
        /\ call.pointer = NoPointer
        /\ UnwrapCommands(call.body) = <<>>
        /\ Prop(call.body.v, DefaultPatternKey) = JStr(call.packet.pattern)

\* The data of the envelope is itself a pointer in the simple format; the
\* envelope was read in the mode that accepts both formats.
C38_Witness ==
    /\ call.fn = "envelope" /\ call.pc = "read" /\ call.format = "auto"
    /\ isS3Pointer(JsonBody(call.packet.data), "auto", S3_POINTER_KEY)
    /\ Prop(call.body.v, "data") = call.packet.data
    /\ ~call.isPointer

\* The unwrap and the decoding of message m went through and a handler is
\* registered for its pattern.
HandlerRegistered(m) ==
    /\ inv[m].err \notin {"StoreError", "Failed to read S3 object"}
    /\ DecodedOf(m).ok
    /\ getHandlerByPattern(DecodedOf(m).pattern) \in {"event", "request"}

\* C39: however the processing of the messages of a batch interleaves, an
\* invocation calls at most one handler, exactly one when a handler is
\* registered for the pattern of its message, with the data and the context
\* of its own message; a step of one invocation changes nothing of another
\* invocation, so a job message resolves whatever happens to the message
\* processed next to it.
C39_Isolation ==
    /\ [](\A m \in Msgs :
             /\ inv[m].calls <= 1
             /\ HandlerGotOwnMessage(m)
             /\ (inv[m].pc = "done" /\ HandlerRegistered(m)) => inv[m].calls = 1
             /\ (inv[m].pc = "done" /\ ~HandlerRegistered(m)) => inv[m].calls = 0
             /\ (inv[m].pc = "done" /\ queue[m].wire \in JobWire) =>
                   inv[m].outcome = "resolved" /\ inv[m].err = "")
    /\ [][\A m \in Msgs :
             inv'[m] # inv[m] => \A n \in Msgs \ {m} : inv'[n] = inv[n]]_vars

\* The processing of one message was rejected while the handler of another
\* message, called with that message's own data, had not yet settled.
C39_Witness ==
    \E m, n \in Msgs :
        /\ m # n
        /\ inv[m].pc = "done" /\ inv[m].outcome = "rejected"
        /\ inv[n].pc = "awaitHandler" /\ inv[n].calls = 1
        /\ inv[n].args.data = JStr("d0")
        /\ inv[n].args.context.message.MessageId = n
        /\ activeMessages = 1

\* C40: when the body a producer put on the queue is an offload pointer,
\* the handler is never called with the pointer as its data: the consumer
\* hands the handler the data of the stored envelope, or the processing of
\* the message fails before any handler is called.
C40_NeverPointerPayload ==
    \A m \in Msgs :
        (/\ isS3Pointer(queue[m].wire.Body, "auto", S3_POINTER_KEY)
         /\ inv[m].calls > 0) =>
            /\ inv[m].args.data # JsonParse(queue[m].wire.Body).v
            /\ ~isS3Pointer(JsonBody(inv[m].args.data), "auto", S3_POINTER_KEY)
            /\ inv[m].args.data =
                  deserialize([ReceivedMessage(m) EXCEPT
                                  !.Body = StoreObject(
                                      parseS3Pointer(queue[m].wire.Body, "auto",
                                                     S3_POINTER_KEY).key)],
                              DefaultPatternKey).data

====
